---- MODULE Spec2Model ----
(***************************************************************************)
(* Register map and command dispatch engine of penney-scripts (mmio/mmp.py *)
(* and scripts/fifo.py): the bounded FIFO, the peripheral controller's     *)
(* command queue with its load/inc two-phase consumption, the Register     *)
(* bit-field model with its change dict and validity check, the            *)
(* RegisterMap, and the controller's handling of register changes, device  *)
(* responses and callbacks.                                                *)
(***************************************************************************)
EXTENDS Integers, Sequences, FiniteSets, TLC

(***************************************************************************)
(* Bounds of the model and program constants.                              *)
(***************************************************************************)
\* number of commands the environment hands to the controller in one run
MaxCmds == 12
\* number of read commands among them
MaxReads == 2
\* fifo.FIFO(bufferDepth = 10, blockOnFull = True) in MMPeriph.__init__
CmdQueueDepth == 10
\* MMPeriph._CMD_WRITE, MMPeriph._CMD_READ
CMD_WRITE == 0
CMD_READ == 1
\* the register addresses the queue specification's commands go to
QAddrs == {16}

\* Python's None where an item (a tuple) is expected
None == <<>>

VARIABLES
    cmdQueue,     \* MMPeriph._cmdQueue : the FIFO object
    handed,       \* every command passed to addReadToQueue/addWriteToQueue, in call order
    accepted,     \* the commands for which FIFO.add returned True, in call order
    sent,         \* the commands whose phy.transmit returned True, in call order
    lastAttempt,  \* the latest transmit attempt: command, slot it was loaded from, outcome
    lastOp,       \* the latest controller operation and what it did
    reg,          \* a Register object: size, members, changeDict
    regOp,        \* the latest Register method called, its arguments, the exception raised
    fifo,         \* a FIFO object used on its own
    fSeq,         \* the bounded sequence that FIFO is compared with
    fCount,       \* the number of add() calls made on that FIFO
    fLoaded,      \* what the latest load() returned, while only add() calls have followed it
    fifoOp,       \* the latest FIFO method called, its argument and what it returned
    regMap,       \* MMPeriph.registerMap.regDict : the registers by address
    setters,      \* MMPeriph.setters : the member names with a setter callback, by address
    getters,      \* MMPeriph.getters : the member names with a getter callback, by address
    mmpOp,        \* the latest MMPeriph/RegisterMap method called and what it did
    nChanges,     \* the number of register changes posted
    nSends,       \* the number of sendChangesToDevice calls made
    nBinds,       \* the number of registerGetter/registerSetter calls made
    parent        \* MMPeriph.parent : the UI object, with the getters it offers

qvars == <<cmdQueue, handed, accepted, sent, lastAttempt, lastOp>>
rvars == <<reg, regOp>>
fvars == <<fifo, fSeq, fCount, fLoaded, fifoOp>>
mvars == <<regMap, setters, getters, mmpOp, nChanges, nSends, nBinds, parent>>
vars == <<cmdQueue, handed, accepted, sent, lastAttempt, lastOp, reg, regOp,
          fifo, fSeq, fCount, fLoaded, fifoOp,
          regMap, setters, getters, mmpOp, nChanges, nSends, nBinds, parent>>

(***************************************************************************)
(* scripts/fifo.py : class FIFO                                            *)
(***************************************************************************)
FIFO(bufferDepth, blockOnFull) ==
    [depth |-> bufferDepth, blockOnFull |-> blockOnFull,
     buffer |-> [i \in 0..(bufferDepth - 1) |-> None],
     addPtr |-> 0, getPtr |-> 0, empty |-> TRUE]

FIFO_incGetPtr(f) == [f EXCEPT !.getPtr = (f.getPtr + 1) % f.depth]

FIFO_incAddPtr(f) == [f EXCEPT !.addPtr = (f.addPtr + 1) % f.depth]

FIFO_isFull(f) == (~f.empty) /\ (f.addPtr = f.getPtr)

FIFO_isEmpty(f) == f.empty

\* getNumItems() without the full case
MutGetNumItemsNeverFull(f) == (f.addPtr + f.depth - f.getPtr) % f.depth

FIFO_getNumItems(f) ==
    IF FIFO_isFull(f) THEN f.depth
    ELSE (f.addPtr + f.depth - f.getPtr) % f.depth

\* add() that overwrites the oldest item whatever the policy
MutAddNeverBlocks(f, item) ==
    LET g == IF FIFO_isFull(f) THEN FIFO_incGetPtr(f) ELSE f
        h == [g EXCEPT !.buffer[g.addPtr] = item]
    IN [fifo |-> [FIFO_incAddPtr(h) EXCEPT !.empty = FALSE], rval |-> TRUE]

\* add() that overwrites without moving the get pointer
MutAddNoForget(f, item) ==
    IF FIFO_isFull(f) /\ f.blockOnFull
    THEN [fifo |-> f, rval |-> FALSE]
    ELSE LET h == [f EXCEPT !.buffer[f.addPtr] = item]
         IN [fifo |-> [FIFO_incAddPtr(h) EXCEPT !.empty = FALSE], rval |-> TRUE]

\* add(item): the FIFO after the call and the value returned
FIFO_add(f, item) ==
    IF FIFO_isFull(f) /\ f.blockOnFull
    THEN [fifo |-> f, rval |-> FALSE]
    ELSE LET g == IF FIFO_isFull(f) THEN FIFO_incGetPtr(f) ELSE f
             h == [g EXCEPT !.buffer[g.addPtr] = item]
         IN [fifo |-> [FIFO_incAddPtr(h) EXCEPT !.empty = FALSE], rval |-> TRUE]

\* get() that hands out the most recently added item
MutGetNewest(f) ==
    IF FIFO_isEmpty(f) THEN [fifo |-> f, item |-> None]
    ELSE LET g == FIFO_incGetPtr(f)
         IN [fifo |-> IF g.addPtr = g.getPtr THEN [g EXCEPT !.empty = TRUE] ELSE g,
             item |-> f.buffer[(f.addPtr + f.depth - 1) % f.depth]]

\* get(): the FIFO after the call and the item returned
FIFO_get(f) ==
    IF FIFO_isEmpty(f) THEN [fifo |-> f, item |-> None]
    ELSE LET g == FIFO_incGetPtr(f)
         IN [fifo |-> IF g.addPtr = g.getPtr THEN [g EXCEPT !.empty = TRUE] ELSE g,
             item |-> f.buffer[f.getPtr]]

\* load() that returns the most recently added item
MutLoadNewest(f) ==
    IF FIFO_isEmpty(f) THEN None ELSE f.buffer[(f.addPtr + f.depth - 1) % f.depth]

\* load(): the item returned (the FIFO is not changed)
FIFO_load(f) == IF FIFO_isEmpty(f) THEN None ELSE f.buffer[f.getPtr]

\* inc() that forgets to move the get pointer
MutIncNoop(f) == f

\* inc() that moves the get pointer of an empty FIFO as well
MutIncUnguarded(f) ==
    LET g == FIFO_incGetPtr(f)
    IN IF g.addPtr = g.getPtr THEN [g EXCEPT !.empty = TRUE] ELSE g

\* inc(): the FIFO after the call
FIFO_inc(f) ==
    IF FIFO_isEmpty(f) THEN f
    ELSE LET g == FIFO_incGetPtr(f)
         IN IF g.addPtr = g.getPtr THEN [g EXCEPT !.empty = TRUE] ELSE g

\* _convertGetIndex that forgets the get pointer
MutConvertGetIndexNoGetPtr(f, index) ==
    LET i == IF index < 0 THEN FIFO_getNumItems(f) + index ELSE index
    IN IF i < 0 \/ i > f.depth - 1 THEN [slot |-> None, raised |-> "IndexError"]
       ELSE IF i <= FIFO_getNumItems(f) - 1
            THEN [slot |-> <<i % f.depth>>, raised |-> "none"]
            ELSE [slot |-> None, raised |-> "none"]

\* _convertGetIndex(index): the buffer slot returned (None when the method
\* returns None) and the exception raised
FIFO_convertGetIndex(f, index) ==
    LET i == IF index < 0 THEN FIFO_getNumItems(f) + index ELSE index
    IN IF i < 0 \/ i > f.depth - 1 THEN [slot |-> None, raised |-> "IndexError"]
       ELSE IF i <= FIFO_getNumItems(f) - 1
            THEN [slot |-> <<(i + f.getPtr) % f.depth>>, raised |-> "none"]
            ELSE [slot |-> None, raised |-> "none"]

\* __getitem__(index): the item returned and the exception raised
FIFO_getitem(f, index) ==
    LET c == FIFO_convertGetIndex(f, index)
    IN IF c.raised # "none" \/ c.slot = None
       THEN [item |-> None, raised |-> c.raised]
       ELSE [item |-> f.buffer[c.slot[1]], raised |-> "none"]

\* the pending items, oldest first (what fifo[0], fifo[1], ... denote)
Pending(f) ==
    [i \in 1..FIFO_getNumItems(f) |-> f.buffer[(f.getPtr + i - 1) % f.depth]]

(***************************************************************************)
(* scripts/fifo.py : class Stack(FIFO)                                     *)
(***************************************************************************)
Stack(bufferDepth, blockOnFull) ==
    [depth |-> bufferDepth, blockOnFull |-> blockOnFull,
     buffer |-> [i \in 0..(bufferDepth - 1) |-> None],
     addPtr |-> 0, getPtr |-> 0, empty |-> TRUE, numItems |-> 0]

Stack_getNumItems(s) == s.numItems

Stack_isFull(s) == s.numItems = s.depth

Stack_incPtrs(s) ==
    [s EXCEPT !.getPtr = s.addPtr,
              !.addPtr = (s.addPtr + 1) % s.depth,
              !.numItems = s.numItems + 1]

Stack_decPtrs(s) ==
    [s EXCEPT !.addPtr = s.getPtr,
              !.getPtr = (s.getPtr + s.depth - 1) % s.depth,
              !.numItems = s.numItems - 1]

\* add() that refuses on a full stack whatever the policy
MutStackAddAlwaysBlocks(s, item) ==
    IF Stack_isFull(s) THEN [fifo |-> s, rval |-> FALSE]
    ELSE LET h == [s EXCEPT !.buffer[s.addPtr] = item]
         IN [fifo |-> [Stack_incPtrs(h) EXCEPT !.empty = FALSE], rval |-> TRUE]

\* add(item): the stack after the call and the value returned
Stack_add(s, item) ==
    IF Stack_isFull(s) /\ s.blockOnFull
    THEN [fifo |-> s, rval |-> FALSE]
    ELSE LET g == IF Stack_isFull(s) THEN [s EXCEPT !.numItems = s.numItems - 1] ELSE s
             h == [g EXCEPT !.buffer[g.addPtr] = item]
         IN [fifo |-> [Stack_incPtrs(h) EXCEPT !.empty = FALSE], rval |-> TRUE]

\* get() that hands out the item at the add pointer
MutStackGetAtAddPtr(s) ==
    IF FIFO_isEmpty(s) THEN [fifo |-> s, item |-> None]
    ELSE LET g == Stack_decPtrs(s)
         IN [fifo |-> IF g.numItems = 0 THEN [g EXCEPT !.empty = TRUE] ELSE g,
             item |-> s.buffer[s.addPtr]]

\* get(): the stack after the call and the item returned
Stack_get(s) ==
    IF FIFO_isEmpty(s) THEN [fifo |-> s, item |-> None]
    ELSE LET g == Stack_decPtrs(s)
         IN [fifo |-> IF g.numItems = 0 THEN [g EXCEPT !.empty = TRUE] ELSE g,
             item |-> s.buffer[s.getPtr]]

\* Python's abs(index)
Abs(n) == IF n < 0 THEN 0 - n ELSE n

Min(a, b) == IF a < b THEN a ELSE b

\* _convertGetIndex that does not peg the index at the number of items
MutStackConvertGetIndexNoPeg(s, index) ==
    LET nitems == Stack_getNumItems(s)
    IN IF nitems = 0 THEN None
       ELSE LET i == IF index < 0 THEN nitems - (Abs(index) % nitems) ELSE index
            IN <<(s.getPtr + s.depth * (Abs(index) + 1) - i) % s.depth>>

\* _convertGetIndex(index): the buffer slot returned, None on an empty stack
\* (Python's % gives the non-negative remainder)
Stack_convertGetIndex(s, index) ==
    LET nitems == Stack_getNumItems(s)
    IN IF nitems = 0 THEN None
       ELSE LET i == IF index < 0 THEN nitems - (Abs(index) % nitems) ELSE index
            IN <<(s.getPtr + s.depth - Min(i, nitems - 1)) % s.depth>>

\* __getitem__(index), inherited from FIFO: the item returned
Stack_getitem(s, index) ==
    LET c == Stack_convertGetIndex(s, index)
    IN IF c = None THEN None ELSE s.buffer[c[1]]

(***************************************************************************)
(* mmio/mmp.py : class MMPeriph, the command queue                         *)
(***************************************************************************)
\* processQueue() that advances the queue whatever transmit returned
MutProcessQueueAlwaysInc(q, txOk) ==
    LET cmd == FIFO_load(q)
    IN IF cmd = None THEN [queue |-> q, attempts |-> <<>>]
       ELSE [queue |-> FIFO_inc(q),
             attempts |-> <<[cmd |-> cmd, ptr |-> q.getPtr, ok |-> txOk]>>]

\* processQueue() that keeps dispatching while transmit succeeds
RECURSIVE MutProcessQueueDrain(_, _)
MutProcessQueueDrain(q, txOk) ==
    LET cmd == FIFO_load(q)
    IN IF cmd = None THEN [queue |-> q, attempts |-> <<>>]
       ELSE IF ~txOk
            THEN [queue |-> q,
                  attempts |-> <<[cmd |-> cmd, ptr |-> q.getPtr, ok |-> FALSE]>>]
            ELSE LET r == MutProcessQueueDrain(FIFO_inc(q), txOk)
                 IN [queue |-> r.queue,
                     attempts |-> <<[cmd |-> cmd, ptr |-> q.getPtr, ok |-> TRUE]>>
                                  \o r.attempts]

\* processQueue() that dispatches the most recently added command
MutProcessQueueNewest(q, txOk) ==
    LET cmd == IF FIFO_isEmpty(q) THEN None
               ELSE q.buffer[(q.addPtr + q.depth - 1) % q.depth]
    IN IF cmd = None THEN [queue |-> q, attempts |-> <<>>]
       ELSE [queue |-> IF txOk THEN FIFO_inc(q) ELSE q,
             attempts |-> <<[cmd |-> cmd, ptr |-> q.getPtr, ok |-> txOk]>>]

\* processQueue(): txOk is what phy.transmit returns if it is called.  The
\* result is the queue after the call and the transmit calls made, in order.
processQueue(q, txOk) ==
    LET cmd == FIFO_load(q)
    IN IF cmd = None THEN [queue |-> q, attempts |-> <<>>]
       ELSE LET rw == cmd[1]
                called == rw \in {CMD_READ, CMD_WRITE}
                rval == called /\ txOk
            IN [queue |-> IF rval THEN FIFO_inc(q) ELSE q,
                attempts |-> IF called
                             THEN <<[cmd |-> cmd, ptr |-> q.getPtr, ok |-> txOk]>>
                             ELSE <<>>]

\* the commands among the attempts whose transmit returned True
RECURSIVE Successes(_)
Successes(as) ==
    IF as = <<>> THEN <<>>
    ELSE (IF as[1].ok THEN <<as[1].cmd>> ELSE <<>>) \o Successes(Tail(as))


(***************************************************************************)
(* Bit arithmetic on Python's non-negative ints                            *)
(***************************************************************************)
Pow2(n) == 2 ^ n

\* a & b
RECURSIVE BitAnd(_, _)
BitAnd(a, b) ==
    IF a = 0 \/ b = 0 THEN 0
    ELSE (a % 2) * (b % 2) + 2 * BitAnd(a \div 2, b \div 2)

\* a | b
RECURSIVE BitOr(_, _)
BitOr(a, b) ==
    IF a = 0 THEN b
    ELSE IF b = 0 THEN a
    ELSE (IF a % 2 = 1 \/ b % 2 = 1 THEN 1 ELSE 0) + 2 * BitOr(a \div 2, b \div 2)

(***************************************************************************)
(* mmio/mmp.py : class Register                                            *)
(***************************************************************************)
\* Register._bmREAD, Register._bmWRITE
bmREAD == 1
bmWRITE == 2

\* the member names of the model that begin with one of _RESERVED_PREFIXES
\* ("RESERVED", "_"); every other name of the model begins with neither
ReservedNames == {"RESERVED", "_PAD"}

Register_isReserved(name) == name \in ReservedNames

\* _bm(member) / getMask(member)
Register_bm(member) == (Pow2(member.width) - 1) * Pow2(member.offset)

\* getMembers(): the members whose name is not reserved, in order
IsDeclared(member) == ~Register_isReserved(member.name)

Register_getMembers(r) == SelectSeq(r.members, IsDeclared)

\* getMemberByName(name): the index of the first member of that name, 0 for None
Register_getMemberByName(r, name) ==
    IF \E i \in 1..Len(r.members) : r.members[i].name = name
    THEN CHOOSE i \in 1..Len(r.members) :
            /\ r.members[i].name = name
            /\ \A j \in 1..(i - 1) : r.members[j].name # name
    ELSE 0

\* list.sort(key = offset): stable
RECURSIVE InsertByOffset(_, _)
InsertByOffset(sorted, m) ==
    IF sorted = <<>> THEN <<m>>
    ELSE IF sorted[Len(sorted)].offset <= m.offset THEN Append(sorted, m)
    ELSE Append(InsertByOffset(SubSeq(sorted, 1, Len(sorted) - 1), m),
                sorted[Len(sorted)])

RECURSIVE SortByOffset(_)
SortByOffset(ms) ==
    IF ms = <<>> THEN <<>>
    ELSE InsertByOffset(SortByOffset(SubSeq(ms, 1, Len(ms) - 1)), ms[Len(ms)])

\* _isBitUsed(nBit): some member of getMembers() has the bit in its mask
Register_isBitUsed(ms, nBit) ==
    \E i \in 1..Len(ms) :
        IsDeclared(ms[i]) /\ BitAnd(Register_bm(ms[i]), Pow2(nBit)) # 0

\* _addReservedMember(nBitStart, nBitEnd)
ReservedMember(nBitStart, nBitEnd) ==
    [name |-> "RESERVED", offset |-> nBitStart, width |-> nBitEnd - nBitStart,
     permissions |-> 0, value |-> 0]

\* reserveBits(): the loop over range(size) from bit nbit on
RECURSIVE ReserveLoop(_, _, _, _, _)
ReserveLoop(ms, size, nbit, inReserved, rstart) ==
    IF nbit >= size
    THEN IF inReserved THEN Append(ms, ReservedMember(rstart, size)) ELSE ms
    ELSE IF Register_isBitUsed(ms, nbit)
         THEN IF inReserved
              THEN ReserveLoop(Append(ms, ReservedMember(rstart, nbit)),
                               size, nbit + 1, FALSE, rstart)
              ELSE ReserveLoop(ms, size, nbit + 1, FALSE, rstart)
         ELSE IF inReserved
              THEN ReserveLoop(ms, size, nbit + 1, TRUE, rstart)
              ELSE ReserveLoop(ms, size, nbit + 1, TRUE, nbit)

Register_reserveBits(ms, size) == ReserveLoop(ms, size, 0, FALSE, 0)

\* Register.__init__(name, addr, size, memberList): _addMember for every
\* descriptor, sort, reserveBits, sortMembers; the change dict starts empty
Register_init(size, memberList) ==
    [size |-> size,
     members |-> SortByOffset(Register_reserveBits(SortByOffset(memberList), size)),
     changeDict |-> <<>>]

\* _permissionsIsRead / _permissionsIsWrite on a parsed permission string
Register_permissionsIsRead(permissions) == BitAnd(permissions, bmREAD) # 0

Register_permissionsIsWrite(permissions) == BitAnd(permissions, bmWRITE) # 0

\* a member descriptor without a permissions entry
NoPermissions == -1

\* the descriptors as __init__ hands them to _addMember: a member without
\* permissions takes the permission string of the register
Register_inherit(memberList, permissions) ==
    [i \in 1..Len(memberList) |->
        IF memberList[i].permissions = NoPermissions
        THEN [memberList[i] EXCEPT !.permissions = permissions]
        ELSE memberList[i]]

\* the _addMember calls of __init__: a readable member sets _readable, a
\* writeable member sets _writeable
RECURSIVE AddMemberLoop(_, _, _)
AddMemberLoop(ms, readable, writeable) ==
    IF ms = <<>> THEN [readable |-> readable, writeable |-> writeable]
    ELSE AddMemberLoop(Tail(ms),
             IF Register_permissionsIsRead(ms[1].permissions) THEN TRUE ELSE readable,
             IF Register_permissionsIsWrite(ms[1].permissions) THEN TRUE ELSE writeable)

\* Register.__init__(name, addr, size, memberList, permissionString) with its
\* _readable and _writeable attributes: set from the register's permission
\* string, then by the members
Register_initPermissions(size, memberList, permissions) ==
    LET ms == Register_inherit(memberList, permissions)
        r == Register_init(size, ms)
        flags == AddMemberLoop(ms, Register_permissionsIsRead(permissions),
                               Register_permissionsIsWrite(permissions))
    IN [size |-> r.size, members |-> r.members, changeDict |-> r.changeDict,
        readable |-> flags.readable, writeable |-> flags.writeable]

Register_isReadable(r) == r.readable

Register_isWriteable(r) == r.writeable

RECURSIVE ValueLoop(_, _)
ValueLoop(ms, regVal) ==
    IF ms = <<>> THEN regVal
    ELSE ValueLoop(Tail(ms),
                   BitOr(regVal, BitAnd(ms[1].value * Pow2(ms[1].offset),
                                        Register_bm(ms[1]))))

\* value() that leaves every member's value at bit 0
RECURSIVE UnshiftedLoop(_, _)
UnshiftedLoop(ms, regVal) ==
    IF ms = <<>> THEN regVal
    ELSE UnshiftedLoop(Tail(ms), BitOr(regVal, ms[1].value))

MutValueUnshifted(r) == UnshiftedLoop(r.members, 0)

\* value(): the loop over self.members
Register_value(r) == ValueLoop(r.members, 0)

\* changeDict.get(name, None) != None
HasChange(r, name) == name \in DOMAIN r.changeDict

RECURSIVE NextValueLoop(_, _, _)
NextValueLoop(r, ms, regVal) ==
    IF ms = <<>> THEN regVal
    ELSE LET m == ms[1]
             val == IF HasChange(r, m.name) THEN r.changeDict[m.name] ELSE m.value
         IN NextValueLoop(r, Tail(ms),
                          BitOr(regVal, BitAnd(val * Pow2(m.offset), Register_bm(m))))

\* nextValue() that walks getMembers() instead of self.members
MutNextValueDeclaredOnly(r) == NextValueLoop(r, Register_getMembers(r), 0)

\* nextValue(): the loop over self.members
Register_nextValue(r) == NextValueLoop(r, r.members, 0)

\* isChanged()
Register_isChanged(r) == DOMAIN r.changeDict # {}

\* resetChanges()
Register_resetChanges(r) == [r EXCEPT !.changeDict = <<>>]

\* _binOnes(n, nbits): the number of ones among the low nbits bits of n
RECURSIVE Register_binOnes(_, _)
Register_binOnes(n, nbits) ==
    IF nbits = 0 THEN 0
    ELSE Register_binOnes(n, nbits - 1)
         + (IF BitAnd(n, Pow2(nbits - 1)) # 0 THEN 1 ELSE 0)

\* checkValidity(): the loop over self.members: (bm, bits)
RECURSIVE ValidityLoop(_, _, _)
ValidityLoop(ms, bm, bits) ==
    IF ms = <<>> THEN [bm |-> bm, bits |-> bits]
    ELSE ValidityLoop(Tail(ms), BitOr(bm, Register_bm(ms[1])), bits + ms[1].width)

\* checkValidity() without the comparison of the ones with the widths
MutCheckValidityNoOverlap(r) ==
    LET l == ValidityLoop(r.members, 0, 0)
    IN ~(l.bm > Pow2(r.size) - 1)

\* checkValidity()
Register_checkValidity(r) ==
    LET l == ValidityLoop(r.members, 0, 0)
    IN IF l.bm > Pow2(r.size) - 1 THEN FALSE
       ELSE IF Register_binOnes(l.bm, r.size) # l.bits THEN FALSE
       ELSE TRUE

Done(r) == [reg |-> r, raised |-> "none"]

Raise(r, exc) == [reg |-> r, raised |-> exc]

\* setMemberValueByName(name, value).  After the loop memberName is the name
\* of the LAST member of self.members (unbound when there is none), and
\* changeDict.pop(member) is called with the member dict, which is unhashable
\* (with None, which is no key, when no member has that name).
Register_setMemberValueByName(r, name, value) ==
    LET ms == [i \in 1..Len(r.members) |->
                  IF r.members[i].name = name
                  THEN [r.members[i] EXCEPT !.value = value]
                  ELSE r.members[i]]
        r1 == [r EXCEPT !.members = ms]
    IN IF Len(r.members) = 0 THEN Raise(r1, "UnboundLocalError")
       ELSE LET memberName == r.members[Len(r.members)].name
            IN IF HasChange(r1, memberName) /\ value = r1.changeDict[memberName]
               THEN Raise(r1, IF Register_getMemberByName(r, name) = 0
                              THEN "KeyError" ELSE "TypeError")
               ELSE Done(r1)

\* set(regValue): the loop over getMembers(), left at the first exception
RECURSIVE SetLoop(_, _, _)
SetLoop(r, ms, regValue) ==
    IF ms = <<>> THEN Done(r)
    ELSE LET m == ms[1]
             newval == BitAnd(regValue, Register_bm(m)) \div Pow2(m.offset)
             res == Register_setMemberValueByName(r, m.name, newval)
         IN IF res.raised # "none" THEN res
            ELSE SetLoop(res.reg, Tail(ms), regValue)

Register_set(r, regValue) ==
    LET res == SetLoop(r, Register_getMembers(r), regValue)
    IN IF res.raised # "none" THEN res
       ELSE Done(Register_resetChanges(res.reg))

\* setChange(regValue)
Register_setChange(r, regValue) ==
    LET ms == Register_getMembers(r)
        names == {ms[i].name : i \in 1..Len(ms)}
        last(n) == CHOOSE i \in 1..Len(ms) :
                      ms[i].name = n /\ \A j \in (i + 1)..Len(ms) : ms[j].name # n
        cd == [n \in (DOMAIN r.changeDict) \cup names |->
                  IF n \in names
                  THEN BitAnd(regValue, Register_bm(ms[last(n)]))
                           \div Pow2(ms[last(n)].offset)
                  ELSE r.changeDict[n]]
    IN Done([r EXCEPT !.changeDict = cd])

\* setChangeDict(regDict)
Register_setChangeDict(r, regDict) ==
    LET known == {n \in DOMAIN regDict : Register_getMemberByName(r, n) # 0}
        cd == [n \in (DOMAIN r.changeDict) \cup known |->
                  IF n \in known THEN regDict[n] ELSE r.changeDict[n]]
    IN Done([r EXCEPT !.changeDict = cd])

\* the members a mapping names, as a sequence in some iteration order
RECURSIVE SeqOfSet(_)
SeqOfSet(S) ==
    IF S = {} THEN <<>>
    ELSE LET x == CHOOSE y \in S : TRUE IN <<x>> \o SeqOfSet(S \ {x})

RECURSIVE NewValueLoop(_, _, _, _)
NewValueLoop(r, regDict, names, newValue) ==
    IF names = <<>> THEN newValue
    ELSE LET m == r.members[Register_getMemberByName(r, names[1])]
         IN NewValueLoop(r, regDict, Tail(names),
                BitOr(newValue,
                      BitAnd(regDict[names[1]] * Pow2(m.offset), Register_bm(m))))

\* setChangeDictIfChanged(regDict): getMask(None) raises for an unknown name
Register_setChangeDictIfChanged(r, regDict) ==
    IF \E n \in DOMAIN regDict : Register_getMemberByName(r, n) = 0
    THEN Raise(r, "AttributeError")
    ELSE LET currentValue == Register_value(r)
             newValue == NewValueLoop(r, regDict, SeqOfSet(DOMAIN regDict), 0)
         IN IF currentValue # newValue
            THEN Register_setChangeDict(r, regDict)
            ELSE Done(r)

\* setChangeByName(name, newValue): getMembers() returns a list and
\* members.get(name, None) raises AttributeError before anything is stored
Register_setChangeByName(r, name, newValue) == Raise(r, "AttributeError")

\* commitChanges()
Register_commitChanges(r) ==
    LET res == Register_set(r, Register_nextValue(r))
    IN IF res.raised # "none" THEN res
       ELSE Done(Register_resetChanges(res.reg))

(***************************************************************************)
(* mmio/mmp.py : class RegisterMap.  regDict is the sequence of its        *)
(* entries [addr, name, reg] in the dict's iteration order.                *)
(***************************************************************************)
\* regDict.get(addr, None): the index of the entry, 0 for None
RegisterMap_getRegisterByAddress(m, addr) ==
    IF \E i \in 1..Len(m) : m[i].addr = addr
    THEN CHOOSE i \in 1..Len(m) : m[i].addr = addr
    ELSE 0

\* RegisterMap.__init__(registerList): a later register of the same address
\* takes the place of the earlier one
RECURSIVE RegisterMapLoop(_, _)
RegisterMapLoop(registerList, m) ==
    IF registerList = <<>> THEN m
    ELSE LET d == registerList[1]
             e == [addr |-> d.addr, name |-> d.name,
                   reg |-> Register_init(d.size, d.memberList)]
             i == RegisterMap_getRegisterByAddress(m, d.addr)
         IN RegisterMapLoop(Tail(registerList),
                IF i = 0 THEN Append(m, e) ELSE [m EXCEPT ![i] = e])

RegisterMap(registerList) == RegisterMapLoop(registerList, <<>>)

\* Python's None where a register address is expected
NoAddr == -1

\* getRegisterAddressByName that returns the last register of that name
MutAddressByNameLast(m, regName) ==
    IF \E i \in 1..Len(m) : m[i].name = regName
    THEN m[CHOOSE i \in 1..Len(m) :
              m[i].name = regName /\ \A j \in (i + 1)..Len(m) : m[j].name # regName].addr
    ELSE NoAddr

\* getRegisterAddressByName(regName)
RegisterMap_getRegisterAddressByName(m, regName) ==
    IF \E i \in 1..Len(m) : m[i].name = regName
    THEN m[CHOOSE i \in 1..Len(m) :
              m[i].name = regName /\ \A j \in 1..(i - 1) : m[j].name # regName].addr
    ELSE NoAddr

\* getChangedRegisters(): the (addr, nextValue) items of the dict returned
RECURSIVE RegisterMap_getChangedRegisters(_)
RegisterMap_getChangedRegisters(m) ==
    IF m = <<>> THEN <<>>
    ELSE (IF Register_isChanged(m[1].reg)
          THEN << <<m[1].addr, Register_nextValue(m[1].reg)>> >>
          ELSE <<>>) \o RegisterMap_getChangedRegisters(Tail(m))

\* getChangedRegisters(autoClear) that never clears
MutGetChangedNeverClears(m, autoClear) ==
    [map |-> m, valDict |-> RegisterMap_getChangedRegisters(m)]

\* getChangedRegisters(autoClear): the map after the call and the items of
\* the dict returned; a changed register is reset when autoClear is set
RegisterMap_getChangedRegistersAuto(m, autoClear) ==
    [map |-> [i \in 1..Len(m) |->
                 IF Register_isChanged(m[i].reg) /\ autoClear
                 THEN [m[i] EXCEPT !.reg = Register_resetChanges(m[i].reg)]
                 ELSE m[i]],
     valDict |-> RegisterMap_getChangedRegisters(m)]

MapDone(m) == [map |-> m, raised |-> "none"]

\* a Register method applied to entry i of the map
MapApply(m, i, res) == [map |-> [m EXCEPT ![i].reg = res.reg], raised |-> res.raised]

\* commitChanges(): the loop over regDict from entry i, left at the first exception
RECURSIVE RegisterMap_commitChanges(_, _)
RegisterMap_commitChanges(m, i) ==
    IF i > Len(m) THEN MapDone(m)
    ELSE LET res == MapApply(m, i, Register_commitChanges(m[i].reg))
         IN IF res.raised # "none" THEN res
            ELSE RegisterMap_commitChanges(res.map, i + 1)

\* setRegisterValue(regAddr, regValue)
RegisterMap_setRegisterValue(m, regAddr, regValue) ==
    LET i == RegisterMap_getRegisterByAddress(m, regAddr)
    IN IF i = 0 THEN MapDone(m)
       ELSE MapApply(m, i, Register_set(m[i].reg, regValue))

\* setRegisterIfChanged(regAddr, regDict)
RegisterMap_setRegisterIfChanged(m, regAddr, regDict) ==
    LET i == RegisterMap_getRegisterByAddress(m, regAddr)
    IN IF i = 0 THEN MapDone(m)
       ELSE MapApply(m, i, Register_setChangeDictIfChanged(m[i].reg, regDict))

\* setRegisterChange(regAddr, newRegisterValue)
RegisterMap_setRegisterChange(m, regAddr, newRegisterValue) ==
    LET i == RegisterMap_getRegisterByAddress(m, regAddr)
    IN IF i = 0 THEN MapDone(m)
       ELSE MapApply(m, i, Register_setChange(m[i].reg, newRegisterValue))

\* memberDict of getRegisterValueAsMembers: a later member of the same name
\* puts its value where the earlier one stands
RECURSIVE MemberDictLoop(_, _)
MemberDictLoop(ms, d) ==
    IF ms = <<>> THEN d
    ELSE LET e == <<ms[1].name, ms[1].value>>
         IN MemberDictLoop(Tail(ms),
                IF \E i \in 1..Len(d) : d[i][1] = e[1]
                THEN [i \in 1..Len(d) |-> IF d[i][1] = e[1] THEN e ELSE d[i]]
                ELSE Append(d, e))

\* getRegisterValueAsMembers(regAddr): whether the address is known, and the
\* (memberName, value) items of the dict returned
RegisterMap_getRegisterValueAsMembers(m, regAddr) ==
    LET i == RegisterMap_getRegisterByAddress(m, regAddr)
    IN IF i = 0 THEN [found |-> FALSE, items |-> <<>>]
       ELSE [found |-> TRUE,
             items |-> MemberDictLoop(Register_getMembers(m[i].reg), <<>>)]

(***************************************************************************)
(* mmio/mmp.py : class MMPeriph, registers and callbacks (queued = True).   *)
(* setters and getters are functions from the addresses of the map to the  *)
(* set of member names a callback is registered for.                       *)
(***************************************************************************)
\* initUI() with no parent: an empty dict for every address of the map
MMPeriph_initUI(m) == [a \in {m[i].addr : i \in 1..Len(m)} |-> {}]

\* parent = None; a parent object is the getter methods it has, those called
\* get<registerName><memberName> and those called getRegister<address><memberName>
NoParent == [present |-> FALSE, byName |-> {}, byAddr |-> {}]

\* getParentGetter(registerAddress, registerName, memberName) found a method
MMPeriph_getParentGetter(p, registerAddress, registerName, memberName) ==
    /\ p.present
    /\ \/ <<registerName, memberName>> \in p.byName
       \/ <<registerAddress, memberName>> \in p.byAddr

\* the getters table initUI() builds: the members of each register for which
\* the parent has a getter
MMPeriph_initGetters(m, p) ==
    [a \in {m[i].addr : i \in 1..Len(m)} |->
        LET e == m[RegisterMap_getRegisterByAddress(m, a)]
            ms == Register_getMembers(e.reg)
        IN {ms[k].name : k \in {j \in 1..Len(ms) :
                                   MMPeriph_getParentGetter(p, a, e.name, ms[j].name)}}]

\* getUIValues(): the getters called, and for every address of the map the
\* results that are not None (the getters of the members in quiet return
\* None, the others 1); nothing when there is no parent
MMPeriph_getUIValues(m, tbl, p, quiet) ==
    IF ~p.present THEN [polled |-> {}, regDict |-> <<>>]
    ELSE [polled |-> UNION {{<<m[i].addr, n>> : n \in tbl[m[i].addr]} : i \in 1..Len(m)},
          regDict |-> [i \in 1..Len(m) |->
                          <<m[i].addr, [n \in tbl[m[i].addr] \ quiet |-> 1]>>]]

\* setChangesFromUI(): the loop over the result of getUIValues(), left at the
\* first exception
RECURSIVE ChangesLoop(_, _)
ChangesLoop(m, regDoubleDict) ==
    IF regDoubleDict = <<>> THEN MapDone(m)
    ELSE LET res == RegisterMap_setRegisterIfChanged(m, regDoubleDict[1][1],
                                                     regDoubleDict[1][2])
         IN IF res.raised # "none" THEN res
            ELSE ChangesLoop(res.map, Tail(regDoubleDict))

MMPeriph_setChangesFromUI(m, tbl, p, quiet) ==
    LET ui == MMPeriph_getUIValues(m, tbl, p, quiet)
        res == ChangesLoop(m, ui.regDict)
    IN [map |-> res.map, raised |-> res.raised, polled |-> ui.polled]

\* addWriteToQueue(regAddr, regVal), queued: the queue after the call
MMPeriph_addWriteToQueue(q, regAddr, regVal) ==
    FIFO_add(q, <<CMD_WRITE, regAddr, regVal>>).fifo

\* addReadToQueue(regAddr), queued: the queue after the call
MMPeriph_addReadToQueue(q, regAddr) ==
    FIFO_add(q, <<CMD_READ, regAddr, 0>>).fifo

RECURSIVE WriteLoop(_, _)
WriteLoop(q, changeDict) ==
    IF changeDict = <<>> THEN q
    ELSE WriteLoop(MMPeriph_addWriteToQueue(q, changeDict[1][1], changeDict[1][2]),
                   Tail(changeDict))

\* requestNewRegisterValues(regAddressList)
RECURSIVE MMPeriph_requestNewRegisterValues(_, _)
MMPeriph_requestNewRegisterValues(q, regAddressList) ==
    IF regAddressList = <<>> THEN q
    ELSE MMPeriph_requestNewRegisterValues(
             MMPeriph_addReadToQueue(q, regAddressList[1]), Tail(regAddressList))

\* sendChangesToDevice(openLoop): the queue and the map after the call, and
\* the exception it left with
MMPeriph_sendChangesToDevice(q, m, openLoop) ==
    LET changeDict == RegisterMap_getChangedRegisters(m)
        q1 == WriteLoop(q, changeDict)
    IN IF openLoop
       THEN LET res == RegisterMap_commitChanges(m, 1)
            IN [queue |-> q1, map |-> res.map, raised |-> res.raised]
       ELSE [queue |-> MMPeriph_requestNewRegisterValues(q1,
                           [i \in 1..Len(changeDict) |-> changeDict[i][1]]),
             map |-> m, raised |-> "none"]

\* getSetter(regAddr, memberName): whether a callback is registered
MMPeriph_getSetter(tbl, regAddr, memberName) ==
    regAddr \in DOMAIN tbl /\ memberName \in tbl[regAddr]

\* handleReadResponseUI(regAddr, regValue): the setter calls made, in order,
\* each as (memberName, value)
MMPeriph_handleReadResponseUI(m, tbl, regAddr) ==
    LET d == RegisterMap_getRegisterValueAsMembers(m, regAddr)
        hasSetter(item) == MMPeriph_getSetter(tbl, regAddr, item[1])
    IN IF ~d.found THEN <<>> ELSE SelectSeq(d.items, hasSetter)

\* handleReadResponse(regAddr, regValue)
MMPeriph_handleReadResponse(m, tbl, regAddr, regValue) ==
    LET res == RegisterMap_setRegisterValue(m, regAddr, regValue)
    IN [map |-> res.map, raised |-> res.raised, resets |-> 0,
        calls |-> IF res.raised # "none" THEN <<>>
                  ELSE MMPeriph_handleReadResponseUI(res.map, tbl, regAddr)]

\* the outcomes of phy.readResponse and protocol.unpackResponse: no message
\* (None or b''), a message that does not decode, a decoded (regAddr, regVal)
NoMsg == [kind |-> "none", addr |-> NoAddr, val |-> 0]

BadMsg == [kind |-> "undecodable", addr |-> NoAddr, val |-> 0]

Response(regAddr, regVal) == [kind |-> "decoded", addr |-> regAddr, val |-> regVal]

\* readAndParseFromDevice() that resets the transport after every message
MutReadAlwaysResets(m, tbl, msg) ==
    IF msg.kind = "none"
    THEN [map |-> m, raised |-> "none", resets |-> 0, calls |-> <<>>]
    ELSE [MMPeriph_handleReadResponse(m, tbl, msg.addr, msg.val) EXCEPT !.resets = 1]

\* readAndParseFromDevice()
MMPeriph_readAndParseFromDevice(m, tbl, msg) ==
    IF msg.kind = "none"
    THEN [map |-> m, raised |-> "none", resets |-> 0, calls |-> <<>>]
    ELSE IF msg.addr # NoAddr
         THEN MMPeriph_handleReadResponse(m, tbl, msg.addr, msg.val)
         ELSE [map |-> m, raised |-> "none", resets |-> 1, calls |-> <<>>]

\* registerGetter / registerSetter(registerAddrname, memberName, callback) on
\* the table tbl; registerAddrname is a name (str) or an address (int)
MMPeriph_registerCallback(m, tbl, registerAddrname, isName, memberName) ==
    LET regAddr == IF isName
                   THEN RegisterMap_getRegisterAddressByName(m, registerAddrname)
                   ELSE registerAddrname
    IN IF isName /\ regAddr = NoAddr
       THEN [tbl |-> tbl, addr |-> regAddr, rval |-> FALSE, raised |-> "none"]
       ELSE IF regAddr \notin DOMAIN tbl
            THEN [tbl |-> tbl, addr |-> regAddr, rval |-> FALSE, raised |-> "KeyError"]
            ELSE [tbl |-> [tbl EXCEPT ![regAddr] = @ \cup {memberName}],
                  addr |-> regAddr, rval |-> TRUE, raised |-> "none"]

NoAttempt == [cmd |-> None, ptr |-> 0, ok |-> TRUE]

NoOp == [op |-> "init", attempts |-> <<>>, item |-> None]

QInit ==
    /\ cmdQueue = FIFO(CmdQueueDepth, TRUE)
    /\ handed = <<>>
    /\ accepted = <<>>
    /\ sent = <<>>
    /\ lastAttempt = NoAttempt
    /\ lastOp = NoOp

\* addReadToQueue / addWriteToQueue in queued mode: FIFO.add, return value
\* dropped; addReadToQueue ends with 'return 0' (rval (0,)), addWriteToQueue
\* with a bare 'return' (rval None)
Enqueue(opname, cmd) ==
    /\ Len(handed) < MaxCmds
    /\ LET r == FIFO_add(cmdQueue, cmd)
       IN /\ cmdQueue' = r.fifo
          /\ accepted' = IF r.rval THEN Append(accepted, cmd) ELSE accepted
    /\ handed' = Append(handed, cmd)
    /\ lastOp' = [op |-> opname, attempts |-> <<>>, item |-> cmd,
                  rval |-> IF opname = "addReadToQueue" THEN <<0>> ELSE None]
    /\ UNCHANGED <<sent, lastAttempt>>
    /\ UNCHANGED rvars
    /\ UNCHANGED fvars
    /\ UNCHANGED mvars

IsRead(cmd) == cmd[1] = CMD_READ

\* addReadToQueue(regAddr)
AddReadToQueue ==
    /\ Len(SelectSeq(handed, IsRead)) < MaxReads
    /\ \E a \in QAddrs : Enqueue("addReadToQueue", <<CMD_READ, a, 0>>)

\* addWriteToQueue(regAddr, regVal): the n-th command handed over writes the
\* value n, so that every write of a run is a different command
AddWriteToQueue ==
    \E a \in QAddrs : Enqueue("addWriteToQueue", <<CMD_WRITE, a, Len(handed) + 1>>)

ProcessQueueWith(txOk) ==
    LET r == processQueue(cmdQueue, txOk)
    IN /\ cmdQueue' = r.queue
       /\ sent' = sent \o Successes(r.attempts)
       /\ lastAttempt' = IF r.attempts = <<>> THEN lastAttempt
                         ELSE r.attempts[Len(r.attempts)]
       /\ lastOp' = [op |-> "processQueue", attempts |-> r.attempts, item |-> None]
       /\ UNCHANGED <<handed, accepted>>
       /\ UNCHANGED rvars
       /\ UNCHANGED fvars
       /\ UNCHANGED mvars

ProcessQueueOk == ProcessQueueWith(TRUE)

ProcessQueueFail == ProcessQueueWith(FALSE)

(***************************************************************************)
(* The FIFO methods as steps on a FIFO of its own                          *)
(***************************************************************************)
\* number of add() calls in one run
MaxAdds == 7
\* FIFO.__init__(bufferDepth = 3, ...), the default depth
FifoDepth == 3

NoFifoOp == [op |-> "init", item |-> None, rval |-> TRUE]

\* the bounded sequence: add(item) at capacity refuses (blocking) or drops
\* its oldest item (overwrite)
BSeq_add(s, depth, blockOnFull, item) ==
    IF Len(s) < depth THEN Append(s, item)
    ELSE IF blockOnFull THEN s
    ELSE Append(Tail(s), item)

BSeq_head(s) == IF s = <<>> THEN None ELSE Head(s)

BSeq_drop(s) == IF s = <<>> THEN s ELSE Tail(s)

\* the FIFO of the queue and register specifications, which never touch it
FIdle ==
    /\ fifo = FIFO(FifoDepth, TRUE)
    /\ fSeq = <<>>
    /\ fCount = 0
    /\ fLoaded = None
    /\ fifoOp = NoFifoOp

\* add(item): the n-th call adds the item (n,)
FAdd ==
    /\ fCount < MaxAdds
    /\ LET item == <<fCount + 1>>
           r == FIFO_add(fifo, item)
       IN /\ fifo' = r.fifo
          /\ fifoOp' = [op |-> "add", item |-> item, rval |-> r.rval]
          /\ fSeq' = BSeq_add(fSeq, fifo.depth, fifo.blockOnFull, item)
    /\ fCount' = fCount + 1
    /\ UNCHANGED <<fLoaded, qvars, rvars, mvars>>

\* get()
FGet ==
    /\ LET r == FIFO_get(fifo)
       IN /\ fifo' = r.fifo
          /\ fifoOp' = [op |-> "get", item |-> r.item, rval |-> TRUE]
    /\ fSeq' = BSeq_drop(fSeq)
    /\ fLoaded' = None
    /\ UNCHANGED <<fCount, qvars, rvars, mvars>>

\* load()
FLoad ==
    /\ fifoOp' = [op |-> "load", item |-> FIFO_load(fifo), rval |-> TRUE]
    /\ fLoaded' = FIFO_load(fifo)
    /\ UNCHANGED <<fifo, fSeq, fCount, qvars, rvars, mvars>>

\* inc()
FInc ==
    /\ fifo' = FIFO_inc(fifo)
    /\ fifoOp' = [op |-> "inc", item |-> None, rval |-> TRUE, loaded |-> fLoaded]
    /\ fSeq' = BSeq_drop(fSeq)
    /\ fLoaded' = None
    /\ UNCHANGED <<fCount, qvars, rvars, mvars>>

\* fifo[index], for every index up to one beyond the buffer on either side
FGetItem ==
    /\ \E index \in (0 - FifoDepth - 1)..(FifoDepth + 1) :
          LET r == FIFO_getitem(fifo, index)
          IN fifoOp' = [op |-> "getitem", item |-> r.item, rval |-> TRUE,
                        index |-> index, raised |-> r.raised]
    /\ fLoaded' = None
    /\ UNCHANGED <<fifo, fSeq, fCount, qvars, rvars, mvars>>

\* the bounded stack: add(item) at capacity refuses (blocking) or drops its
\* bottom item (overwrite); the top is the last element
BStack_add(s, depth, blockOnFull, item) ==
    IF Len(s) < depth THEN Append(s, item)
    ELSE IF blockOnFull THEN s
    ELSE Append(Tail(s), item)

BStack_pop(s) == IF s = <<>> THEN s ELSE SubSeq(s, 1, Len(s) - 1)

\* add(item) on the stack: the n-th call adds the item (n,)
SAdd ==
    /\ fCount < MaxAdds
    /\ LET item == <<fCount + 1>>
           r == Stack_add(fifo, item)
       IN /\ fifo' = r.fifo
          /\ fifoOp' = [op |-> "add", item |-> item, rval |-> r.rval]
          /\ fSeq' = BStack_add(fSeq, fifo.depth, fifo.blockOnFull, item)
    /\ fCount' = fCount + 1
    /\ UNCHANGED <<fLoaded, qvars, rvars, mvars>>

\* get() on the stack
SGet ==
    /\ LET r == Stack_get(fifo)
       IN /\ fifo' = r.fifo
          /\ fifoOp' = [op |-> "get", item |-> r.item, rval |-> TRUE]
    /\ fSeq' = BStack_pop(fSeq)
    /\ UNCHANGED <<fCount, fLoaded, qvars, rvars, mvars>>

\* stack[index], for every index up to two beyond the buffer on either side
SGetItem ==
    /\ \E index \in (0 - FifoDepth - 2)..(FifoDepth + 2) :
          fifoOp' = [op |-> "getitem", item |-> Stack_getitem(fifo, index),
                     rval |-> TRUE, index |-> index, raised |-> "none"]
    /\ UNCHANGED <<fifo, fSeq, fCount, fLoaded, qvars, rvars, mvars>>

SNext ==
    \/ SAdd
    \/ SGet
    \/ SGetItem

FNext ==
    \/ FAdd
    \/ FGet
    \/ FLoad
    \/ FInc
    \/ FGetItem

(***************************************************************************)
(* The Register operations as steps                                        *)
(***************************************************************************)
\* largest member value and largest pending value the environment supplies
MaxVal == 2

Member(name, offset, width, value) ==
    [name |-> name, offset |-> offset, width |-> width,
     permissions |-> bmREAD + bmWRITE, value |-> value]

\* register descriptions: size and member list
Layouts ==
    { [size |-> 4, memberList |-> <<Member("EN", 0, 1, 0), Member("STATUS", 1, 2, 0)>>],
      [size |-> 3, memberList |-> <<Member("MODE", 1, 2, 0), Member("CTRL", 0, 1, 0)>>],
      [size |-> 2, memberList |-> <<Member("_PAD", 0, 1, 1), Member("EN", 1, 1, 0)>>] }

NoRegOp ==
    [op |-> "init", name |-> "", val |-> 0, dict |-> <<>>, raised |-> "none",
     rval |-> TRUE]

RegOp(op, name, val, dict, raised) ==
    [op |-> op, name |-> name, val |-> val, dict |-> dict, raised |-> raised,
     rval |-> TRUE]

AllNames(r) == {r.members[i].name : i \in 1..Len(r.members)}

DeclaredNames(r) == {n \in AllNames(r) : ~Register_isReserved(n)}

\* the {memberName: value} mappings handed to setChangeDict and
\* setChangeDictIfChanged: any one member, or two declared members
Mappings(r) ==
    UNION { [D -> 0..MaxVal] :
            D \in {E \in SUBSET AllNames(r) :
                      \/ Cardinality(E) = 1
                      \/ Cardinality(E) = 2 /\ E \subseteq DeclaredNames(r)} }

\* the register of the queue specification, which never touches it
RIdle ==
    /\ reg = Register_init(4, <<Member("EN", 0, 1, 0), Member("STATUS", 1, 2, 0)>>)
    /\ regOp = NoRegOp

RStep(op, name, val, dict, res) ==
    /\ reg' = res.reg
    /\ regOp' = RegOp(op, name, val, dict, res.raised)
    /\ UNCHANGED qvars
    /\ UNCHANGED fvars
    /\ UNCHANGED mvars

RSet ==
    \E v \in 0..(Pow2(reg.size) - 1) :
        RStep("set", "", v, <<>>, Register_set(reg, v))

RSetChange ==
    \E v \in 0..(Pow2(reg.size) - 1) :
        RStep("setChange", "", v, <<>>, Register_setChange(reg, v))

RSetChangeDict ==
    \E d \in Mappings(reg) :
        RStep("setChangeDict", "", 0, d, Register_setChangeDict(reg, d))

RSetChangeDictIfChanged ==
    \E d \in Mappings(reg) :
        RStep("setChangeDictIfChanged", "", 0, d, Register_setChangeDictIfChanged(reg, d))

RSetChangeByName ==
    \E n \in AllNames(reg), v \in 0..MaxVal :
        RStep("setChangeByName", n, v, <<>>, Register_setChangeByName(reg, n, v))

RCommitChanges ==
    RStep("commitChanges", "", 0, <<>>, Register_commitChanges(reg))

RResetChanges ==
    RStep("resetChanges", "", 0, <<>>, Done(Register_resetChanges(reg)))

\* setMemberValueByName(name, value) called on the register
RSetMemberValueByName ==
    \E n \in AllNames(reg), v \in 0..MaxVal :
        RStep("setMemberValueByName", n, v, <<>>,
              Register_setMemberValueByName(reg, n, v))

\* checkValidity(), queried on the constructed register
RCheckValidity ==
    /\ regOp' = [RegOp("checkValidity", "", 0, <<>>, "none")
                    EXCEPT !.rval = Register_checkValidity(reg)]
    /\ UNCHANGED <<reg, qvars, fvars, mvars>>

\* isReadable() / isWriteable(), queried on the constructed register
RIsReadable ==
    /\ regOp' = [RegOp("isReadable", "", 0, <<>>, "none")
                    EXCEPT !.rval = Register_isReadable(reg)]
    /\ UNCHANGED <<reg, qvars, fvars, mvars>>

RIsWriteable ==
    /\ regOp' = [RegOp("isWriteable", "", 0, <<>>, "none")
                    EXCEPT !.rval = Register_isWriteable(reg)]
    /\ UNCHANGED <<reg, qvars, fvars, mvars>>

\* largest member offset of the generated register descriptions
MaxOffset == 2

\* the generated register descriptions: one or two members of any offset and
\* width, the second possibly with a reserved name, in a register of any of
\* the sizes; overlapping and out-of-range members included
Widths == 1..2

Sizes == {2, 3}

GenLayouts ==
    LET firsts == {Member("EN", o, w, 0) : o \in 0..MaxOffset, w \in Widths}
        seconds == {Member(n, o, w, 0) :
                       n \in {"MODE", "_PAD"}, o \in 0..MaxOffset, w \in Widths}
    IN {[size |-> z, memberList |-> <<a>>] : z \in Sizes, a \in firsts}
       \cup {[size |-> z, memberList |-> <<a, b>>] :
                 z \in Sizes, a \in firsts, b \in seconds}

\* the parsed permission strings "", "r", "w", "rw"
PermissionStrings == {0, bmREAD, bmWRITE, bmREAD + bmWRITE}

\* register descriptions with a permission string at register level and, on
\* each of the one or two members, a permission string of its own or none
PermLayouts ==
    LET perms == PermissionStrings \cup {NoPermissions}
        en(q) == [Member("EN", 0, 1, 0) EXCEPT !.permissions = q]
        mode(q) == [Member("MODE", 1, 1, 0) EXCEPT !.permissions = q]
    IN {[size |-> z, memberList |-> <<en(q)>>, permissions |-> p] :
            z \in Sizes, q \in perms, p \in PermissionStrings}
       \cup {[size |-> z, memberList |-> <<en(q), mode(q2)>>, permissions |-> p] :
                 z \in Sizes, q \in perms, q2 \in perms, p \in PermissionStrings}

\* a constructed register asked for its permissions
PNext ==
    \/ RIsReadable
    \/ RIsWriteable

\* a constructed register receiving values and asked for its validity
VNext ==
    \/ RCheckValidity
    \/ RSet

RNext ==
    \/ RSet
    \/ RSetChange
    \/ RSetChangeDict
    \/ RSetChangeDictIfChanged
    \/ RSetChangeByName
    \/ RCommitChanges
    \/ RResetChanges

\* a register receiving pending changes and confirmed member values
RNextMember ==
    \/ RSetChangeDict
    \/ RSetMemberValueByName

(***************************************************************************)
(* The MMPeriph and RegisterMap methods as steps                           *)
(***************************************************************************)
\* number of register changes posted in one run
MaxChanges == 2
\* number of sendChangesToDevice calls in one run
MaxSends == 3
\* number of registerGetter/registerSetter calls in one run
MaxBinds == 1

\* the register descriptions of the memory map file: CFG has no reserved
\* bits, STAT has its upper bit reserved
RegisterList ==
    << [addr |-> 16, name |-> "CFG", size |-> 2,
        memberList |-> <<Member("EN", 0, 1, 0), Member("MODE", 1, 1, 0)>>],
       [addr |-> 17, name |-> "STAT", size |-> 2,
        memberList |-> <<Member("RDY", 0, 1, 0)>>] >>

\* the addresses of the map, and every address the callers use
MapAddrs == {RegisterList[i].addr : i \in 1..Len(RegisterList)}

AllAddrs == MapAddrs \cup {18}

\* the register names the callers use
AllRegNames == {"CFG", "NOREG"}

\* the member names callbacks are registered for
CbNames == {"EN", "MODE"}

\* the register values the callers and the device supply
RegVals == {1, 2}

\* a method call: its name and arguments (kind: the kind of message read),
\* the exception raised, the number of phy.reset() calls, the setter
\* callbacks called, the value returned
NoMmpOp ==
    [op |-> "init", kind |-> "", addr |-> NoAddr, val |-> 0, openLoop |-> FALSE,
     raised |-> "none", resets |-> 0, calls |-> <<>>, rval |-> TRUE]

MmpOp(op, kind, addr, val, openLoop, raised, resets, calls, rval) ==
    [op |-> op, kind |-> kind, addr |-> addr, val |-> val, openLoop |-> openLoop,
     raised |-> raised, resets |-> resets, calls |-> calls, rval |-> rval]

\* MMPeriph.__init__ with the memory map loaded, queued, no parent; also the
\* controller of the specifications that never touch it
MIdle ==
    /\ regMap = RegisterMap(RegisterList)
    /\ setters = MMPeriph_initUI(RegisterMap(RegisterList))
    /\ getters = MMPeriph_initUI(RegisterMap(RegisterList))
    /\ mmpOp = NoMmpOp
    /\ nChanges = 0
    /\ nSends = 0
    /\ nBinds = 0
    /\ parent = NoParent

MInit == QInit /\ RIdle /\ FIdle /\ MIdle

\* registerMap.setRegisterChange(regAddr, newRegisterValue): the user
\* changes a register of the map
MSetRegisterChange ==
    /\ nChanges < MaxChanges
    /\ \E a \in MapAddrs, v \in RegVals :
          LET res == RegisterMap_setRegisterChange(regMap, a, v)
          IN /\ regMap' = res.map
             /\ mmpOp' = MmpOp("setRegisterChange", "", a, v, FALSE, res.raised, 0, <<>>, TRUE)
    /\ nChanges' = nChanges + 1
    /\ UNCHANGED <<setters, getters, nSends, nBinds, parent, qvars, rvars, fvars>>

\* sendChangesToDevice(openLoop)
MSendChangesToDevice ==
    /\ nSends < MaxSends
    /\ \E openLoop \in BOOLEAN :
          LET res == MMPeriph_sendChangesToDevice(cmdQueue, regMap, openLoop)
          IN /\ cmdQueue' = res.queue
             /\ regMap' = res.map
             /\ mmpOp' = MmpOp("sendChangesToDevice", "", NoAddr, 0, openLoop,
                                res.raised, 0, <<>>, TRUE)
    /\ nSends' = nSends + 1
    /\ UNCHANGED <<handed, accepted, sent, lastAttempt, lastOp>>
    /\ UNCHANGED <<setters, getters, nChanges, nBinds, parent, rvars, fvars>>

\* processQueue(), transmit succeeding or not
MProcessQueue ==
    /\ \E txOk \in BOOLEAN :
          /\ cmdQueue' = processQueue(cmdQueue, txOk).queue
          /\ mmpOp' = MmpOp("processQueue", "", NoAddr, 0, FALSE, "none", 0, <<>>, txOk)
    /\ UNCHANGED <<handed, accepted, sent, lastAttempt, lastOp>>
    /\ UNCHANGED <<regMap, setters, getters, nChanges, nSends, nBinds, parent, rvars, fvars>>

\* the controller changing registers, sending the changes and ticking
MNextSend ==
    \/ MSetRegisterChange
    \/ MSendChangesToDevice
    \/ MProcessQueue

\* the controller changing registers and sending the changes while writes
\* are handed to addWriteToQueue and nothing is dispatched
MNextCommit ==
    \/ AddWriteToQueue
    \/ MSetRegisterChange
    \/ MSendChangesToDevice

\* what phy.readResponse and protocol.unpackResponse can hand over
Messages == {NoMsg, BadMsg} \cup {Response(a, v) : a \in AllAddrs, v \in RegVals}

\* the {memberName: value} dicts handed to setRegisterIfChanged
MemberDicts == UNION {[{n} -> {1}] : n \in CbNames}

\* a step that leaves the command queue and the counters of changes and sends alone
MFrame == UNCHANGED <<nChanges, nSends, parent, qvars, rvars, fvars>>

\* readAndParseFromDevice()
MReadAndParseFromDevice ==
    /\ \E msg \in Messages :
          LET res == MMPeriph_readAndParseFromDevice(regMap, setters, msg)
          IN /\ regMap' = res.map
             /\ mmpOp' = MmpOp("readAndParseFromDevice", msg.kind, msg.addr, msg.val,
                                FALSE, res.raised, res.resets, res.calls, TRUE)
    /\ UNCHANGED <<setters, getters, nBinds>>
    /\ MFrame

\* handleReadResponse(regAddr, regValue)
MHandleReadResponse ==
    /\ \E a \in AllAddrs, v \in RegVals :
          LET res == MMPeriph_handleReadResponse(regMap, setters, a, v)
          IN /\ regMap' = res.map
             /\ mmpOp' = MmpOp("handleReadResponse", "", a, v, FALSE,
                                res.raised, res.resets, res.calls, TRUE)
    /\ UNCHANGED <<setters, getters, nBinds>>
    /\ MFrame

\* registerSetter(registerAddrname, memberName, callback), by address or by name
MRegisterSetter ==
    /\ nBinds < MaxBinds
    /\ \E n \in CbNames :
          \E res \in {MMPeriph_registerCallback(regMap, setters, a, FALSE, n) : a \in AllAddrs}
                   \cup {MMPeriph_registerCallback(regMap, setters, r, TRUE, n) : r \in AllRegNames} :
             /\ setters' = res.tbl
             /\ mmpOp' = MmpOp("registerSetter", "", res.addr, 0, FALSE, res.raised, 0, <<>>, res.rval)
    /\ nBinds' = nBinds + 1
    /\ UNCHANGED <<regMap, getters>>
    /\ MFrame

\* registerGetter(registerAddrname, memberName, callback), by address or by name
MRegisterGetter ==
    /\ nBinds < MaxBinds
    /\ \E n \in CbNames :
          \E res \in {MMPeriph_registerCallback(regMap, getters, a, FALSE, n) : a \in AllAddrs}
                   \cup {MMPeriph_registerCallback(regMap, getters, r, TRUE, n) : r \in AllRegNames} :
             /\ getters' = res.tbl
             /\ mmpOp' = MmpOp("registerGetter", "", res.addr, 0, FALSE, res.raised, 0, <<>>, res.rval)
    /\ nBinds' = nBinds + 1
    /\ UNCHANGED <<regMap, setters>>
    /\ MFrame

\* registerMap.setRegisterValue(regAddr, regValue)
MSetRegisterValue ==
    /\ \E a \in AllAddrs, v \in RegVals :
          LET res == RegisterMap_setRegisterValue(regMap, a, v)
          IN /\ regMap' = res.map
             /\ mmpOp' = MmpOp("setRegisterValue", "", a, v, FALSE, res.raised, 0, <<>>, TRUE)
    /\ UNCHANGED <<setters, getters, nBinds>>
    /\ MFrame

\* registerMap.setRegisterIfChanged(regAddr, regDict)
MSetRegisterIfChanged ==
    /\ \E a \in AllAddrs, d \in MemberDicts :
          LET res == RegisterMap_setRegisterIfChanged(regMap, a, d)
          IN /\ regMap' = res.map
             /\ mmpOp' = MmpOp("setRegisterIfChanged", "", a, 0, FALSE, res.raised, 0, <<>>, TRUE)
    /\ UNCHANGED <<setters, getters, nBinds>>
    /\ MFrame

\* registerMap.getRegisterValueAsMembers(regAddr)
MGetRegisterValueAsMembers ==
    /\ \E a \in AllAddrs :
          LET res == RegisterMap_getRegisterValueAsMembers(regMap, a)
          IN mmpOp' = MmpOp("getRegisterValueAsMembers", "", a, 0, FALSE, "none", 0,
                            res.items, res.found)
    /\ UNCHANGED <<regMap, setters, getters, nBinds>>
    /\ MFrame

\* the controller taking device responses, callback registrations and
\* register map calls
\* the parent objects: none, one without getters, one with a getter for
\* member EN of CFG found by the naming rule
Parents ==
    {NoParent,
     [present |-> TRUE, byName |-> {}, byAddr |-> {}],
     [present |-> TRUE, byName |-> {<<"CFG", "EN">>}, byAddr |-> {}]}

\* MMPeriph.__init__ with the memory map loaded and any of the parents
UInit ==
    /\ QInit
    /\ RIdle
    /\ FIdle
    /\ regMap = RegisterMap(RegisterList)
    /\ setters = MMPeriph_initUI(RegisterMap(RegisterList))
    /\ \E p \in Parents :
          /\ parent = p
          /\ getters = MMPeriph_initGetters(RegisterMap(RegisterList), p)
    /\ mmpOp = NoMmpOp
    /\ nChanges = 0
    /\ nSends = 0
    /\ nBinds = 0

\* setChangesFromUI(): every getter called returns None or 1
MSetChangesFromUI ==
    /\ \E quiet \in SUBSET CbNames :
          LET res == MMPeriph_setChangesFromUI(regMap, getters, parent, quiet)
          IN /\ regMap' = res.map
             /\ mmpOp' = [op |-> "setChangesFromUI", quiet |-> quiet,
                          raised |-> res.raised, calls |-> res.polled]
    /\ UNCHANGED <<setters, getters, nBinds>>
    /\ MFrame

\* registerMap.getChangedRegisters(autoClear)
MGetChangedRegisters ==
    /\ \E autoClear \in BOOLEAN :
          LET res == RegisterMap_getChangedRegistersAuto(regMap, autoClear)
          IN /\ regMap' = res.map
             /\ mmpOp' = [op |-> "getChangedRegisters", autoClear |-> autoClear,
                          raised |-> "none", calls |-> res.valDict]
    /\ UNCHANGED <<setters, getters, nBinds>>
    /\ MFrame

\* largest number of register descriptors in a generated memory map
MaxRegs == 3

\* the register descriptors of the generated memory maps: two addresses, two
\* names, two sizes
GenDescriptors ==
    {[addr |-> a, name |-> n, size |-> z, memberList |-> <<Member("EN", 0, 1, 0)>>] :
        a \in MapAddrs, n \in {"CFG", "STAT"}, z \in Sizes}

RECURSIVE SeqsUpTo(_, _)
SeqsUpTo(S, n) ==
    IF n = 0 THEN {<<>>}
    ELSE LET shorter == SeqsUpTo(S, n - 1)
         IN shorter \cup {Append(s, x) : s \in shorter, x \in S}

\* the memory maps read: one to MaxRegs descriptors, addresses and names
\* possibly repeated
GenRegisterLists == SeqsUpTo(GenDescriptors, MaxRegs) \ {<<>>}

\* MMPeriph.__init__ with any of the generated memory maps loaded
GInit ==
    /\ QInit
    /\ RIdle
    /\ FIdle
    /\ \E registerList \in GenRegisterLists :
          /\ regMap = RegisterMap(registerList)
          /\ setters = MMPeriph_initUI(RegisterMap(registerList))
          /\ getters = MMPeriph_initUI(RegisterMap(registerList))
          /\ mmpOp = [op |-> "__init__", registerList |-> registerList,
                      name |-> "", rval |-> NoAddr]
    /\ nChanges = 0
    /\ nSends = 0
    /\ nBinds = 0
    /\ parent = NoParent

\* registerMap.getRegisterAddressByName(regName)
MGetRegisterAddressByName ==
    /\ \E regName \in {"CFG", "STAT", "NOREG"} :
          mmpOp' = [op |-> "getRegisterAddressByName",
                    registerList |-> mmpOp.registerList, name |-> regName,
                    rval |-> RegisterMap_getRegisterAddressByName(regMap, regName)]
    /\ UNCHANGED <<regMap, setters, getters, nBinds>>
    /\ MFrame

\* the user changing registers, device values arriving, and the changed
\* registers being collected
MNextChanged ==
    \/ MSetRegisterChange
    \/ MSetRegisterValue
    \/ MGetChangedRegisters

\* the user interface registering getters, the controller polling them, and
\* device values arriving
MNextUI ==
    \/ MRegisterGetter
    \/ MSetChangesFromUI
    \/ MSetRegisterValue

MNextResp ==
    \/ MReadAndParseFromDevice
    \/ MHandleReadResponse
    \/ MRegisterSetter
    \/ MRegisterGetter
    \/ MSetRegisterValue
    \/ MSetRegisterIfChanged
    \/ MGetRegisterValueAsMembers

RInit ==
    /\ QInit
    /\ \E l \in Layouts : reg = Register_init(l.size, l.memberList)
    /\ regOp = NoRegOp
    /\ FIdle
    /\ MIdle

VInit ==
    /\ QInit
    /\ \E l \in GenLayouts : reg = Register_init(l.size, l.memberList)
    /\ regOp = NoRegOp
    /\ FIdle
    /\ MIdle

PInit ==
    /\ QInit
    /\ \E l \in PermLayouts :
          reg = Register_initPermissions(l.size, l.memberList, l.permissions)
    /\ regOp = NoRegOp
    /\ FIdle
    /\ MIdle

FInit ==
    /\ QInit
    /\ RIdle
    /\ \E b \in BOOLEAN : fifo = FIFO(FifoDepth, b)
    /\ fSeq = <<>>
    /\ fCount = 0
    /\ fLoaded = None
    /\ fifoOp = NoFifoOp
    /\ MIdle

\* Stack.__init__(bufferDepth = 3, blockOnFull) of either policy
SInit ==
    /\ QInit
    /\ RIdle
    /\ \E b \in BOOLEAN : fifo = Stack(FifoDepth, b)
    /\ fSeq = <<>>
    /\ fCount = 0
    /\ fLoaded = None
    /\ fifoOp = NoFifoOp
    /\ MIdle

Init == QInit /\ RIdle /\ FIdle /\ MIdle

Next ==
    \/ AddReadToQueue
    \/ AddWriteToQueue
    \/ ProcessQueueOk
    \/ ProcessQueueFail

Spec == Init /\ [][Next]_vars

\* processQueue() keeps being called and transmit keeps succeeding
SpecLive == Init /\ [][Next]_vars /\ WF_vars(ProcessQueueOk)

\* the Register methods called in any order on one register
SpecReg == RInit /\ [][RNext]_vars

\* the FIFO methods called in any order on one FIFO, of either policy
SpecFifo == FInit /\ [][FNext]_vars

\* the controller posting register changes, sending them and ticking its queue
SpecSend == MInit /\ [][MNextSend]_vars

\* the controller taking device responses and calls that name a register
SpecResp == MInit /\ [][MNextResp]_vars

\* registers constructed from generated descriptions, valid or not
SpecValid == VInit /\ [][VNext]_vars

\* a memory map file whose CFG description is invalid: MODE overlaps EN
InvalidRegisterList ==
    << [addr |-> 16, name |-> "CFG", size |-> 2,
        memberList |-> <<Member("EN", 0, 1, 0), Member("MODE", 0, 2, 0)>>],
       [addr |-> 17, name |-> "STAT", size |-> 2,
        memberList |-> <<Member("RDY", 0, 1, 0)>>] >>

\* MMPeriph.__init__ with that memory map loaded
MInvalidInit ==
    /\ QInit
    /\ RIdle
    /\ FIdle
    /\ regMap = RegisterMap(InvalidRegisterList)
    /\ setters = MMPeriph_initUI(RegisterMap(InvalidRegisterList))
    /\ getters = MMPeriph_initUI(RegisterMap(InvalidRegisterList))
    /\ mmpOp = NoMmpOp
    /\ nChanges = 0
    /\ nSends = 0
    /\ nBinds = 0
    /\ parent = NoParent

\* the controller posting and sending changes on a map with an invalid register
SpecInvalid == MInvalidInit /\ [][MNextSend]_vars

\* registers constructed with permission strings, asked for their permissions
SpecPerm == PInit /\ [][PNext]_vars

\* MMPeriph.__init__(..., queued): the queued attribute, the command queue and
\* the exception raised.  "True if queued else false" names the undefined
\* false when queued is falsy.
MMPeriph_init(queued) ==
    IF queued
    THEN [queued |-> TRUE, cmdQueue |-> FIFO(CmdQueueDepth, TRUE), raised |-> "none"]
    ELSE [queued |-> None, cmdQueue |-> None, raised |-> "NameError"]

\* the controller constructed with queued = True or queued = False
ModeInit ==
    /\ \E queued \in BOOLEAN :
          LET c == MMPeriph_init(queued)
          IN /\ cmdQueue = c.cmdQueue
             /\ mmpOp = [op |-> "__init__", queued |-> queued,
                         attr |-> c.queued, raised |-> c.raised]
    /\ handed = <<>>
    /\ accepted = <<>>
    /\ sent = <<>>
    /\ lastAttempt = NoAttempt
    /\ lastOp = NoOp
    /\ RIdle
    /\ FIdle
    /\ regMap = RegisterMap(RegisterList)
    /\ setters = MMPeriph_initUI(RegisterMap(RegisterList))
    /\ getters = MMPeriph_initUI(RegisterMap(RegisterList))
    /\ nChanges = 0
    /\ nSends = 0
    /\ nBinds = 0
    /\ parent = NoParent

\* the constructor returned an object
Constructed == mmpOp.raised = "none"

\* addReadToQueue / addWriteToQueue in direct mode: readRegister or
\* writeRegister, one phy.transmit call that returns txOk
Direct(opname, cmd, txOk) ==
    /\ Len(handed) < MaxCmds
    /\ handed' = Append(handed, cmd)
    /\ sent' = IF txOk THEN Append(sent, cmd) ELSE sent
    /\ lastAttempt' = [cmd |-> cmd, ptr |-> 0, ok |-> txOk]
    /\ lastOp' = [op |-> opname, attempts |-> <<[cmd |-> cmd, ptr |-> 0, ok |-> txOk]>>,
                  item |-> cmd]
    /\ UNCHANGED <<cmdQueue, accepted>>
    /\ UNCHANGED rvars
    /\ UNCHANGED fvars
    /\ UNCHANGED mvars

\* addReadToQueue(regAddr) in either mode
ModeAddReadToQueue ==
    /\ Constructed
    /\ Len(SelectSeq(handed, IsRead)) < MaxReads
    /\ \E a \in QAddrs, txOk \in BOOLEAN :
          IF mmpOp.attr = TRUE
          THEN Enqueue("addReadToQueue", <<CMD_READ, a, 0>>)
          ELSE Direct("addReadToQueue", <<CMD_READ, a, 0>>, txOk)

\* addWriteToQueue(regAddr, regVal) in either mode
ModeAddWriteToQueue ==
    /\ Constructed
    /\ \E a \in QAddrs, txOk \in BOOLEAN :
          IF mmpOp.attr = TRUE
          THEN Enqueue("addWriteToQueue", <<CMD_WRITE, a, Len(handed) + 1>>)
          ELSE Direct("addWriteToQueue", <<CMD_WRITE, a, Len(handed) + 1>>, txOk)

\* processQueue() on a constructed controller
ModeProcessQueueOk == Constructed /\ ProcessQueueOk

ModeProcessQueueFail == Constructed /\ ProcessQueueFail

ModeNext ==
    \/ ModeAddReadToQueue
    \/ ModeAddWriteToQueue
    \/ ModeProcessQueueOk
    \/ ModeProcessQueueFail

\* the controller with or without a parent, its getters polled
SpecUI == UInit /\ [][MNextUI]_vars

\* the controller constructed in either mode, its commands and queue ticks
SpecMode == ModeInit /\ [][ModeNext]_vars

\* the register map collecting its changed registers
SpecChanged == MInit /\ [][MNextChanged]_vars

\* register maps built from generated descriptor lists, asked for addresses
SpecMap == GInit /\ [][MGetRegisterAddressByName]_vars

\* the Stack methods called in any order on one Stack, of either policy
SpecStack == SInit /\ [][SNext]_vars

\* setChangeDict and setMemberValueByName called in any order on one register
SpecMember == RInit /\ [][RNextMember]_vars

\* changes sent to the device while the command queue fills up
SpecCommit == MInit /\ [][MNextCommit]_vars

(***************************************************************************)
(* Properties of the command queue                                         *)
(***************************************************************************)
IsPrefix(s, t) == Len(s) <= Len(t) /\ SubSeq(t, 1, Len(s)) = s

\* the step is a processQueue() call that made a transmit attempt
TickAttempted == lastOp'.op = "processQueue" /\ lastOp'.attempts # <<>>

\* C1: processQueue() advances the queue (by exactly its head) only when the
\* transmit of the head command returned success; a failed transmit leaves
\* the whole queue object unchanged with the same command at its head, and
\* the attempt after a failed one is for the same command in the same slot.
C1_AdvanceOnlyOnSuccess ==
    [][lastOp'.op = "processQueue" =>
        LET as == lastOp'.attempts
        IN /\ (cmdQueue' # cmdQueue =>
                  /\ as # <<>>
                  /\ as[1].ok
                  /\ as[1].cmd = Head(Pending(cmdQueue))
                  /\ Pending(cmdQueue') = Tail(Pending(cmdQueue)))
           /\ (as # <<>> /\ ~as[1].ok =>
                  /\ cmdQueue' = cmdQueue
                  /\ FIFO_load(cmdQueue') = as[1].cmd)
           /\ (as # <<>> /\ lastAttempt.cmd # None /\ ~lastAttempt.ok =>
                  /\ as[1].cmd = lastAttempt.cmd
                  /\ as[1].ptr = lastAttempt.ptr)]_vars

\* C1 witness: after an earlier success, a processQueue() call's transmit
\* failed while at least two commands were pending
C1_Witness ==
    /\ lastOp.op = "processQueue"
    /\ lastOp.attempts # <<>>
    /\ ~lastOp.attempts[1].ok
    /\ Len(sent) >= 1
    /\ FIFO_getNumItems(cmdQueue) >= 2

\* C2 (as claimed): the successfully transmitted commands are always a prefix
\* of the commands handed to addReadToQueue/addWriteToQueue
C2_SentPrefixOfHanded == IsPrefix(sent, handed)

\* C3: the transmit attempt of a processQueue() call is either a retry of the
\* command whose previous attempt failed (same command, same slot), or the
\* command that was enqueued right after the last successfully sent one.
C3_AttemptsInFifoOrder ==
    [][TickAttempted =>
        LET a == lastOp'.attempts[1]
        IN IF lastAttempt.cmd # None /\ ~lastAttempt.ok
           THEN a.cmd = lastAttempt.cmd /\ a.ptr = lastAttempt.ptr
           ELSE /\ Len(accepted) > Len(sent)
                /\ a.cmd = accepted[Len(sent) + 1]]_vars

\* C3 witness: an attempt was made while two different commands were pending
\* and the queue had already wrapped around
C3_Witness ==
    /\ lastOp.op = "processQueue"
    /\ lastOp.attempts # <<>>
    /\ FIFO_getNumItems(cmdQueue) >= 2
    /\ Pending(cmdQueue)[1] # Pending(cmdQueue)[2]
    /\ cmdQueue.addPtr <= cmdQueue.getPtr
    /\ Len(sent) >= 1

\* C4: one processQueue() call makes at most one transmit call and removes
\* at most one command from the queue, however many are pending.
C4_AtMostOnePerTick ==
    [][lastOp'.op = "processQueue" =>
        /\ Len(lastOp'.attempts) <= 1
        /\ Len(sent') <= Len(sent) + 1
        /\ FIFO_getNumItems(cmdQueue') >= FIFO_getNumItems(cmdQueue) - 1]_vars

\* C4 witness: a processQueue() call succeeded and left several commands pending
C4_Witness ==
    /\ lastOp.op = "processQueue"
    /\ lastOp.attempts # <<>>
    /\ lastOp.attempts[1].ok
    /\ FIFO_getNumItems(cmdQueue) >= 3

\* a step leaves the pending commands alone or appends one, unless it is the
\* successful transmit of the head command, which removes exactly that one
NeverCancelled ==
    LET old == Pending(cmdQueue)
        new == Pending(cmdQueue')
    IN /\ (sent' = sent =>
              \/ new = old
              \/ Len(new) = Len(old) + 1 /\ SubSeq(new, 1, Len(old)) = old)
       /\ (sent' # sent =>
              /\ old # <<>>
              /\ sent' = Append(sent, Head(old))
              /\ new = Tail(old))

\* C5: a queued command leaves the queue only by a successful transmit of it;
\* and when processQueue() keeps being called and transmit keeps succeeding,
\* eventually the queue is empty for good with every accepted command sent.
C5_NeverCancelledEventuallySent ==
    /\ [][NeverCancelled]_vars
    /\ <>[](FIFO_isEmpty(cmdQueue) /\ sent = accepted)

\* C5 witness: after two commands were sent, the head command's transmit
\* failed and the command is still pending
C5_Witness ==
    /\ lastAttempt.cmd # None
    /\ ~lastAttempt.ok
    /\ Len(sent) >= 2
    /\ FIFO_getNumItems(cmdQueue) >= 1
    /\ FIFO_load(cmdQueue) = lastAttempt.cmd

(***************************************************************************)
(* Properties of the Register                                              *)
(***************************************************************************)
\* bits [offset, offset + width) of v, as a number
BitsOf(v, offset, width) == (v \div Pow2(offset)) % Pow2(width)

\* the confirmed value of the (first) member called name
Confirmed(r, name) == r.members[Register_getMemberByName(r, name)].value

\* the width of the (first) member called name
WidthOf(r, name) == r.members[Register_getMemberByName(r, name)].width

OffsetOf(r, name) == r.members[Register_getMemberByName(r, name)].offset

Clamp(v, lo, hi) == IF v < lo THEN lo ELSE IF v > hi THEN hi ELSE v

\* C6 (as claimed): set(rawValue) on a register with a pending change
\* completes, stores every declared member's bits of rawValue as its
\* confirmed value and leaves the change dict empty.
C6_SetCompletesAndClears ==
    [][regOp'.op = "set" /\ Register_isChanged(reg) =>
        /\ regOp'.raised = "none"
        /\ ~Register_isChanged(reg')
        /\ \A i \in 1..Len(reg'.members) :
              IsDeclared(reg'.members[i]) =>
                  reg'.members[i].value =
                      BitsOf(regOp'.val, reg'.members[i].offset, reg'.members[i].width)]_vars

\* C7 (as claimed): setChangeDictIfChanged with a mapping of declared members
\* to their current confirmed values, on a register with no pending change,
\* completes and leaves isChanged() false.
C7_SameValuesNeverPopulate ==
    [][/\ regOp'.op = "setChangeDictIfChanged"
       /\ ~Register_isChanged(reg)
       /\ \A n \in DOMAIN regOp'.dict :
             n \in DeclaredNames(reg) /\ regOp'.dict[n] = Confirmed(reg, n)
       => /\ regOp'.raised = "none"
          /\ ~Register_isChanged(reg')]_vars

\* C8 (as claimed): setChangeByName(name, newValue) on a declared member
\* completes and stores newValue clamped to [0, 2^width - 1] in the change
\* dict under the member's name, so that isChanged() holds and nextValue()
\* carries the clamped value in the member's bits.
C8_SetChangeByNameStoresClamped ==
    [][regOp'.op = "setChangeByName" /\ regOp'.name \in DeclaredNames(reg) =>
        LET n == regOp'.name
            c == Clamp(regOp'.val, 0, Pow2(WidthOf(reg, n)) - 1)
        IN /\ regOp'.raised = "none"
           /\ Register_isChanged(reg')
           /\ HasChange(reg', n)
           /\ reg'.changeDict[n] = c
           /\ BitsOf(Register_nextValue(reg'), OffsetOf(reg, n), WidthOf(reg, n)) = c]_vars

\* C9 (as claimed): commitChanges() on a register with a pending change
\* completes, leaves the change dict empty and makes value() the nextValue()
\* of just before the call.
C9_CommitAppliesNextValue ==
    [][regOp'.op = "commitChanges" /\ Register_isChanged(reg) =>
        /\ regOp'.raised = "none"
        /\ ~Register_isChanged(reg')
        /\ Register_value(reg') = Register_nextValue(reg)]_vars

\* the value a member contributes: its pending value when its name is in the
\* change dict, its confirmed value otherwise
Effective(r, i) ==
    IF r.members[i].name \in DOMAIN r.changeDict
    THEN r.changeDict[r.members[i].name]
    ELSE r.members[i].value

\* bit b of the OR of all members' packed contributions
MergedBit(r, b) ==
    IF \E i \in 1..Len(r.members) :
          /\ r.members[i].offset <= b
          /\ b < r.members[i].offset + r.members[i].width
          /\ BitsOf(Effective(r, i), b - r.members[i].offset, 1) = 1
    THEN 1 ELSE 0

RECURSIVE MergedUpTo(_, _)
MergedUpTo(r, b) ==
    IF b < 0 THEN 0 ELSE MergedBit(r, b) * Pow2(b) + MergedUpTo(r, b - 1)

\* one past the highest bit any member reaches
TopBit(r) ==
    LET ends == {r.members[i].offset + r.members[i].width : i \in 1..Len(r.members)}
    IN IF ends = {} THEN 0 ELSE CHOOSE e \in ends : \A f \in ends : f <= e

\* C10: nextValue() is, bit by bit, the OR over all members (reserved ones
\* included) of the member's packed value, pending if the member is named in
\* the change dict and confirmed otherwise; with an empty change dict it
\* equals value().
C10_NextValueIsMergedOr ==
    /\ Register_nextValue(reg) = MergedUpTo(reg, TopBit(reg) - 1)
    /\ (~Register_isChanged(reg) => Register_nextValue(reg) = Register_value(reg))

\* C10 witness: a pending value that differs from the confirmed one, merged
\* over a reserved-named member that holds a non-zero confirmed value
C10_Witness ==
    /\ Register_isChanged(reg)
    /\ Register_nextValue(reg) # Register_value(reg)
    /\ \E i \in 1..Len(reg.members) :
          ~IsDeclared(reg.members[i]) /\ reg.members[i].value # 0
    /\ \E i \in 1..Len(reg.members) :
          /\ IsDeclared(reg.members[i])
          /\ HasChange(reg, reg.members[i].name)
          /\ reg.changeDict[reg.members[i].name] > Pow2(reg.members[i].width) - 1

C12_BlockingIsBoundedSequence ==
    [][fifo.blockOnFull =>
          /\ fifoOp'.op = "add" => (fifoOp'.rval <=> Len(fSeq) < fifo.depth)
          /\ fifoOp'.op \in {"get", "load"} => fifoOp'.item = BSeq_head(fSeq)
          /\ Pending(fifo') = fSeq'
          /\ FIFO_getNumItems(fifo') = Len(fSeq')
          /\ Len(fSeq') <= fifo.depth
      ]_vars

\* a get() handed out an item added after an add() had been refused, with the
\* add pointer wrapped round behind the get pointer
C12_Witness ==
    /\ fifo.blockOnFull
    /\ fifoOp.op = "get"
    /\ fifoOp.item # None
    /\ fifoOp.item[1] > fifo.depth + 1
    /\ fifo.addPtr < fifo.getPtr

\* C13: add() returns False exactly when the policy is blocking and the FIFO
\* already holds depth items, and then the FIFO, its length and its pending
\* items are left as they were.
C13_AddFailsOnlyWhenBlockingAndFull ==
    [][fifoOp'.op = "add" =>
          /\ (fifoOp'.rval = FALSE) <=>
                 (fifo.blockOnFull /\ FIFO_getNumItems(fifo) = fifo.depth)
          /\ fifoOp'.rval = FALSE =>
                 /\ fifo' = fifo
                 /\ FIFO_getNumItems(fifo') = fifo.depth
                 /\ Pending(fifo') = Pending(fifo)
      ]_vars

\* depth = 3, blocking: the 4th add() was refused and the first three items
\* are still the pending ones
C13_Witness ==
    /\ fifo.blockOnFull
    /\ fifoOp = [op |-> "add", item |-> <<4>>, rval |-> FALSE]
    /\ Pending(fifo) = << <<1>>, <<2>>, <<3>> >>

\* C14: under the overwrite policy add() always returns True; on a full FIFO
\* it discards exactly the oldest pending item and the length stays depth; the
\* items left and the new one are what get() and load() hand out, oldest first.
C14_OverwriteDropsOldest ==
    [][~fifo.blockOnFull =>
          /\ fifoOp'.op = "add" =>
                 /\ fifoOp'.rval = TRUE
                 /\ FIFO_getNumItems(fifo) = fifo.depth =>
                        /\ Pending(fifo') = Append(Tail(Pending(fifo)), fifoOp'.item)
                        /\ FIFO_getNumItems(fifo') = fifo.depth
                 /\ FIFO_getNumItems(fifo) < fifo.depth =>
                        Pending(fifo') = Append(Pending(fifo), fifoOp'.item)
          /\ fifoOp'.op \in {"get", "load"} => fifoOp'.item = BSeq_head(fSeq)
          /\ Pending(fifo') = fSeq'
      ]_vars

\* depth = 3, overwrite: after four add() calls the first get() handed out
\* the second item; the third and fourth are left
C14_Witness ==
    /\ ~fifo.blockOnFull
    /\ fCount = 4
    /\ fifoOp = [op |-> "get", item |-> <<2>>, rval |-> TRUE]
    /\ Pending(fifo) = << <<3>>, <<4>> >>

\* C25: fifo[index] with an index outside the pending items (index >= len
\* or index < -len) raises IndexError and never returns a value.
C25_IndexOutsidePendingRaises ==
    (/\ fifoOp.op = "getitem"
     /\ \/ fifoOp.index >= FIFO_getNumItems(fifo)
        \/ fifoOp.index < 0 - FIFO_getNumItems(fifo))
        => fifoOp.raised = "IndexError"

\* C26: on a FIFO holding n >= 1 items, after any adds, gets and incs,
\* fifo[i] for 0 <= i < n is the (i+1)-th oldest pending item and fifo[-k]
\* for 1 <= k <= n the k-th newest; fifo[0] is what load() returns and
\* fifo[-1] is the most recently accepted item.
C26_IndexingIsOldestFirst ==
    LET n == Len(fSeq)
        i == fifoOp.index
    IN (fifoOp.op = "getitem" /\ n >= 1) =>
          /\ (0 <= i /\ i < n) => (fifoOp.raised = "none" /\ fifoOp.item = fSeq[i + 1])
          /\ (0 - n <= i /\ i <= 0 - 1)
                => (fifoOp.raised = "none" /\ fifoOp.item = fSeq[n + i + 1])
          /\ i = 0 => fifoOp.item = FIFO_load(fifo)
          /\ i = 0 - 1 => fifoOp.item = fSeq[n]

\* fifo[-2] returned the second newest of three items of an overwriting
\* FIFO that has dropped items, from a slot behind the get pointer
C26_Witness ==
    /\ fifoOp.op = "getitem"
    /\ fifoOp.index = 0 - 2
    /\ ~fifo.blockOnFull
    /\ fCount > FifoDepth + 1
    /\ Len(fSeq) = FifoDepth
    /\ fifoOp.item = <<fCount - 1>>
    /\ fifo.getPtr = FifoDepth - 1

\* C27: on an empty FIFO get() and load() return None and inc() does
\* nothing: none of them changes the pointers, the empty flag or the length;
\* an add() that follows behaves as on a fresh queue: it is accepted and its
\* item is the only pending one.
C27_EmptyFifoUnchangedByReads ==
    [][FIFO_isEmpty(fifo) =>
          /\ fifoOp'.op \in {"get", "load", "inc"} => fifo' = fifo
          /\ fifoOp'.op \in {"get", "load"} => fifoOp'.item = None
          /\ fifoOp'.op = "add"
                => /\ fifoOp'.rval = TRUE
                   /\ ~FIFO_isEmpty(fifo')
                   /\ FIFO_getNumItems(fifo') = 1
                   /\ FIFO_load(fifo') = fifoOp'.item
      ]_vars

\* get() returned None on a FIFO emptied after use, its pointers away from
\* slot 0
C27_Witness ==
    /\ fifoOp.op = "get"
    /\ fifoOp.item = None
    /\ FIFO_isEmpty(fifo)
    /\ fCount > 0
    /\ fifo.getPtr # 0
    /\ FIFO_getNumItems(fifo) = 0

\* C28: getNumItems() is between 0 and depth and is the number of items
\* accepted and neither consumed nor overwritten; the empty flag is set only
\* when head and tail coincide, and coinciding head and tail with the flag
\* clear mean exactly depth items.
C28_LengthAndEmptyFlag ==
    /\ FIFO_getNumItems(fifo) \in 0..fifo.depth
    /\ FIFO_getNumItems(fifo) = Len(fSeq)
    /\ FIFO_isEmpty(fifo) => fifo.addPtr = fifo.getPtr
    /\ (fifo.addPtr = fifo.getPtr /\ ~FIFO_isEmpty(fifo))
          => FIFO_getNumItems(fifo) = fifo.depth

\* a full overwriting FIFO that has dropped an item: head and tail coincide
\* away from slot 0 with the flag clear
C28_Witness ==
    /\ ~fifo.blockOnFull
    /\ ~FIFO_isEmpty(fifo)
    /\ fifo.addPtr = fifo.getPtr
    /\ fifo.getPtr # 0
    /\ fCount > FifoDepth
    /\ Len(fSeq) = FifoDepth

(***************************************************************************)
(* Properties of the controller                                            *)
(***************************************************************************)
\* the commands a call appended to the command queue
Added(q, q2) == SubSeq(Pending(q2), Len(Pending(q)) + 1, Len(Pending(q2)))

\* the number of commands of kind rw for address a among cmds
CountCmds(cmds, rw, a) ==
    Cardinality({i \in 1..Len(cmds) : cmds[i][1] = rw /\ cmds[i][2] = a})

ChangedEntries(m) == {k \in 1..Len(m) : Register_isChanged(m[k].reg)}

\* C15: sendChangesToDevice(openLoop=False) appends to the command queue, for
\* every register with a pending change, exactly one WRITE of the register's
\* nextValue() and exactly one READ of the same address, the WRITE ahead of
\* the READ, whatever was already pending in the queue.
C15_ClosedLoopWriteThenRead ==
    [][(mmpOp'.op = "sendChangesToDevice" /\ ~mmpOp'.openLoop) =>
          /\ IsPrefix(Pending(cmdQueue), Pending(cmdQueue'))
          /\ \A k \in ChangedEntries(regMap) :
                LET a == regMap[k].addr
                    added == Added(cmdQueue, cmdQueue')
                IN /\ CountCmds(added, CMD_WRITE, a) = 1
                   /\ CountCmds(added, CMD_READ, a) = 1
                   /\ \E i, j \in 1..Len(added) :
                         /\ i < j
                         /\ added[i] = <<CMD_WRITE, a, Register_nextValue(regMap[k].reg)>>
                         /\ added[j] = <<CMD_READ, a, 0>>
      ]_vars

\* C16: sendChangesToDevice(openLoop=True) returns having appended exactly one
\* WRITE of nextValue() and no READ for every register with a pending change;
\* on return no register has a pending change and the confirmed value() of
\* every register that had one is the value its WRITE carries.
C16_OpenLoopWritesAndCommits ==
    [][(mmpOp'.op = "sendChangesToDevice" /\ mmpOp'.openLoop) =>
          /\ mmpOp'.raised = "none"
          /\ IsPrefix(Pending(cmdQueue), Pending(cmdQueue'))
          /\ \A k \in 1..Len(regMap') : ~Register_isChanged(regMap'[k].reg)
          /\ \A k \in ChangedEntries(regMap) :
                LET a == regMap[k].addr
                    added == Added(cmdQueue, cmdQueue')
                    w == <<CMD_WRITE, a, Register_nextValue(regMap[k].reg)>>
                IN /\ CountCmds(added, CMD_WRITE, a) = 1
                   /\ CountCmds(added, CMD_READ, a) = 0
                   /\ \E i \in 1..Len(added) : added[i] = w
                   /\ Register_value(regMap'[k].reg) = w[3]
      ]_vars

\* C17: readAndParseFromDevice() on a message that does not decode calls
\* phy.reset() exactly once and touches no register value, change set or
\* callback; on a message that decodes it does not call phy.reset().
C17_ResetOnlyOnDecodeFailure ==
    [][mmpOp'.op = "readAndParseFromDevice" =>
          /\ mmpOp'.kind = "undecodable" =>
                 /\ mmpOp'.resets = 1
                 /\ mmpOp'.raised = "none"
                 /\ mmpOp'.calls = <<>>
                 /\ UNCHANGED <<regMap, setters, getters>>
          /\ mmpOp'.kind = "decoded" => mmpOp'.resets = 0
      ]_vars

\* an undecodable message arrived while CFG had a pending change and a
\* setter callback was registered for CFG
C17_Witness ==
    /\ mmpOp.op = "readAndParseFromDevice"
    /\ mmpOp.kind = "undecodable"
    /\ mmpOp.resets = 1
    /\ Register_isChanged(regMap[1].reg)
    /\ setters[regMap[1].addr] # {}

\* C18: handleReadResponse(addr, value) for an address of the map returns
\* having stored every declared member's bits of value as its confirmed value
\* and emptied the register's change set, and having called the setter
\* callback of every member of that register that has one exactly once, with
\* the member's newly confirmed value.
C18_ResponseAppliedThenFannedOut ==
    [][(mmpOp'.op = "handleReadResponse" /\ mmpOp'.addr \in MapAddrs) =>
          LET k == RegisterMap_getRegisterByAddress(regMap, mmpOp'.addr)
              r == regMap'[k].reg
              ms == Register_getMembers(r)
              names == {ms[i].name : i \in 1..Len(ms)}
              calls == mmpOp'.calls
          IN /\ mmpOp'.raised = "none"
             /\ \A i \in 1..Len(ms) :
                   ms[i].value = BitsOf(mmpOp'.val, ms[i].offset, ms[i].width)
             /\ ~Register_isChanged(r)
             /\ \A n \in setters[mmpOp'.addr] \cap names :
                   /\ Cardinality({i \in 1..Len(calls) : calls[i][1] = n}) = 1
                   /\ \E i \in 1..Len(calls) : calls[i] = <<n, Confirmed(r, n)>>
             /\ \A i \in 1..Len(calls) : calls[i][1] \in setters[mmpOp'.addr]
      ]_vars

\* the methods that take a register address
AddressOps ==
    {"setRegisterValue", "setRegisterIfChanged", "getRegisterValueAsMembers",
     "handleReadResponse", "registerGetter", "registerSetter"}

\* C19: a method that takes a register address, called with an address (or a
\* register name) that is not in the map, returns without raising, calls no
\* callback and leaves the registers and both callback tables as they were;
\* registerGetter, registerSetter and getRegisterValueAsMembers return their
\* not-found value.
C19_UnknownAddressNeverRaises ==
    [][(mmpOp'.op \in AddressOps /\ mmpOp'.addr \notin MapAddrs) =>
          /\ mmpOp'.raised = "none"
          /\ mmpOp'.calls = <<>>
          /\ UNCHANGED <<regMap, setters, getters>>
          /\ mmpOp'.op \in {"registerGetter", "registerSetter",
                             "getRegisterValueAsMembers"} => mmpOp'.rval = FALSE
      ]_vars

\* C29: a controller constructed in direct mode executes the transport call
\* of addReadToQueue/addWriteToQueue once, within the call, and queues
\* nothing; a controller constructed in queued mode makes no transport call
\* in them and only adds to the queue.
C29_DirectModeCallsTransport ==
    /\ (mmpOp.op = "__init__" /\ ~mmpOp.queued)
          => (Constructed /\ mmpOp.attr = FALSE /\ cmdQueue = None)
    /\ (Constructed /\ lastOp.op \in {"addReadToQueue", "addWriteToQueue"})
          => IF mmpOp.attr = TRUE
             THEN lastOp.attempts = <<>>
             ELSE /\ Len(lastOp.attempts) = 1
                  /\ lastOp.attempts[1].cmd = lastOp.item

\* the getters registered in the binding table
Registered(tbl) == UNION {{<<a, n>> : n \in tbl[a]} : a \in DOMAIN tbl}

\* C30: setChangesFromUI() polls every getter registered in the binding
\* table, bound by the naming rule or through registerGetter, and every
\* result that is not None reaches its register, which then holds it as its
\* confirmed or its pending value; also when no parent was supplied.
C30_PollsEveryRegisteredGetter ==
    [][mmpOp'.op = "setChangesFromUI" =>
          /\ mmpOp'.calls = Registered(getters)
          /\ mmpOp'.raised = "none" =>
                \A c \in Registered(getters) :
                   LET r == regMap'[RegisterMap_getRegisterByAddress(regMap', c[1])].reg
                       k == Register_getMemberByName(r, c[2])
                   IN (c[2] \notin mmpOp'.quiet /\ k # 0) => Effective(r, k) = 1
      ]_vars

(***************************************************************************)
(* Properties of the register description                                  *)
(***************************************************************************)
\* the bit positions a member claims
MemberBits(m) == m.offset..(m.offset + m.width - 1)

\* two members of ms claim a common bit
Overlapping(ms) ==
    \E i, j \in 1..Len(ms) : i # j /\ MemberBits(ms[i]) \cap MemberBits(ms[j]) # {}

\* some member of ms claims a bit at or beyond position size
OutOfRange(ms, size) ==
    \E i \in 1..Len(ms) : \E b \in MemberBits(ms[i]) : b >= size

\* the members the register was described with (the fillers that
\* construction adds are the ones called RESERVED)
IsDescribed(m) == m.name # "RESERVED"

Described(r) == SelectSeq(r.members, IsDescribed)

\* C20: checkValidity() returns False exactly when two members of the
\* register claim a common bit or a member claims a bit at or beyond size; a
\* register constructed from a description with such members returns False
\* whenever it is asked afterwards.
C20_CheckValidityFlagsBadLayouts ==
    regOp.op = "checkValidity" =>
        /\ regOp.rval = ~(Overlapping(reg.members) \/ OutOfRange(reg.members, reg.size))
        /\ (Overlapping(Described(reg)) \/ OutOfRange(Described(reg), reg.size))
               => regOp.rval = FALSE

\* checkValidity() returned False on a register described with two
\* overlapping members, all within the register, after a set()
C20_Witness ==
    /\ regOp.op = "checkValidity"
    /\ regOp.rval = FALSE
    /\ Overlapping(Described(reg))
    /\ ~OutOfRange(Described(reg), reg.size)
    /\ \E i \in 1..Len(reg.members) : reg.members[i].value # 0


\* the members of r that claim bit b
Covering(r, b) == {i \in 1..Len(r.members) : b \in MemberBits(r.members[i])}

\* C22: after construction every bit position in [0, size) is covered by
\* exactly one member of the full member list (declared members and RESERVED
\* fillers together cover all bits, none twice), also when a declared member
\* has a name that begins with RESERVED or _; stated for the descriptions
\* whose own members neither overlap nor leave the register.
C22_EveryBitCoveredOnce ==
    (~Overlapping(Described(reg)) /\ ~OutOfRange(Described(reg), reg.size))
        => \A b \in 0..(reg.size - 1) : Cardinality(Covering(reg, b)) = 1

\* some member of r is readable / writeable
AnyMemberReadable(r) ==
    \E i \in 1..Len(r.members) : Register_permissionsIsRead(r.members[i].permissions)

AnyMemberWriteable(r) ==
    \E i \in 1..Len(r.members) : Register_permissionsIsWrite(r.members[i].permissions)

\* C23: isReadable() is true exactly when at least one member is readable
\* and isWriteable() is true exactly when at least one member is writeable,
\* whatever permission string was declared at register level.
C23_PermissionIsOrOfMembers ==
    /\ regOp.op = "isReadable" => (regOp.rval <=> AnyMemberReadable(reg))
    /\ regOp.op = "isWriteable" => (regOp.rval <=> AnyMemberWriteable(reg))

\* the description of r is valid: its members neither overlap nor leave it
ValidDescription(r) ==
    ~Overlapping(Described(r)) /\ ~OutOfRange(Described(r), r.size)

\* every member of r holds a value that fits its width
WithinWidths(r) ==
    \A i \in 1..Len(r.members) : r.members[i].value \in 0..(Pow2(r.members[i].width) - 1)

\* C24: on a register with a valid description whose members hold values
\* within their widths, reading value() and feeding it back through set()
\* leaves every declared member with the value it had; with no change
\* pending, set() returns normally.
C24_ValueSetRoundTrip ==
    [][(/\ regOp'.op = "set"
        /\ regOp'.val = Register_value(reg)
        /\ ValidDescription(reg)
        /\ WithinWidths(reg))
          => /\ ~Register_isChanged(reg) => regOp'.raised = "none"
             /\ \A i \in 1..Len(reg.members) :
                   IsDescribed(reg.members[i]) => reg'.members[i] = reg.members[i]
      ]_vars

\* set() was given the value() of a valid register with two members, both
\* holding a nonzero value, and one bit reserved
C24_Witness ==
    /\ regOp.op = "set"
    /\ regOp.raised = "none"
    /\ regOp.val = Register_value(reg)
    /\ ValidDescription(reg)
    /\ Len(Described(reg)) = 2
    /\ Len(reg.members) = 3
    /\ \A i \in 1..Len(reg.members) :
          IsDescribed(reg.members[i]) => reg.members[i].value # 0

(***************************************************************************)
(* Properties of a map holding a register with an invalid description      *)
(***************************************************************************)
\* the addresses of the registers whose description checkValidity() rejects
InvalidAddrs ==
    {regMap[i].addr : i \in {j \in 1..Len(regMap) : ~Register_checkValidity(regMap[j].reg)}}

\* C21: a register whose description is invalid is inert for writes: no
\* sequence of change requests followed by sendChangesToDevice() ever puts a
\* WRITE command for its address in the command queue
C21_InvalidRegisterNeverWritten ==
    \A a \in InvalidAddrs : CountCmds(Pending(cmdQueue), CMD_WRITE, a) = 0
(***************************************************************************)
(* Properties of the register map                                          *)
(***************************************************************************)
\* C31: getChangedRegisters(autoClear) returns address -> nextValue() for
\* exactly the registers with a pending change; with autoClear those
\* registers have no pending change afterwards, without it no change set is
\* modified; in both cases no confirmed member value changes.
C31_ChangedRegistersAndAutoClear ==
    [][mmpOp'.op = "getChangedRegisters" =>
          LET items == mmpOp'.calls
          IN /\ Len(items) = Cardinality(ChangedEntries(regMap))
             /\ \A k \in 1..Len(regMap) :
                   /\ Register_isChanged(regMap[k].reg)
                         <=> \E i \in 1..Len(items) :
                                items[i] = <<regMap[k].addr, Register_nextValue(regMap[k].reg)>>
                   /\ ~Register_isChanged(regMap[k].reg)
                         => \A i \in 1..Len(items) : items[i][1] # regMap[k].addr
                   /\ regMap'[k].reg.members = regMap[k].reg.members
                   /\ regMap'[k].reg.changeDict =
                         IF mmpOp'.autoClear THEN <<>> ELSE regMap[k].reg.changeDict
             /\ Len(regMap') = Len(regMap)
      ]_vars

\* getChangedRegisters(autoClear=True) returned CFG with a next value that
\* differs from its confirmed value and left it without pending change,
\* its confirmed value still nonzero
C31_Witness ==
    /\ mmpOp.op = "getChangedRegisters"
    /\ mmpOp.autoClear
    /\ Len(mmpOp.calls) = 1
    /\ mmpOp.calls[1][1] = 16
    /\ Register_value(regMap[1].reg) # 0
    /\ mmpOp.calls[1][2] # Register_value(regMap[1].reg)
    /\ \A k \in 1..Len(regMap) : ~Register_isChanged(regMap[k].reg)
\* the index of the last descriptor of l for address a
LastFor(l, a) == CHOOSE i \in 1..Len(l) : l[i].addr = a /\ \A j \in (i + 1)..Len(l) : l[j].addr # a

\* C32: when several descriptors share an address, construction does not
\* fail and the map holds, for every address, the last descriptor for that
\* address; getRegisterAddressByName returns the address of the first
\* register in map order with that name, None when there is none.
C32_LastDescriptorWinsFirstNameFound ==
    LET l == mmpOp.registerList
    IN /\ {regMap[i].addr : i \in 1..Len(regMap)} = {l[i].addr : i \in 1..Len(l)}
       /\ \A i, j \in 1..Len(regMap) : regMap[i].addr = regMap[j].addr => i = j
       /\ \A i \in 1..Len(regMap) :
             LET d == l[LastFor(l, regMap[i].addr)]
             IN /\ regMap[i].name = d.name
                /\ regMap[i].reg = Register_init(d.size, d.memberList)
       /\ mmpOp.op = "getRegisterAddressByName" =>
             IF \A i \in 1..Len(regMap) : regMap[i].name # mmpOp.name
             THEN mmpOp.rval = NoAddr
             ELSE \E i \in 1..Len(regMap) :
                     /\ regMap[i].name = mmpOp.name
                     /\ regMap[i].addr = mmpOp.rval
                     /\ \A j \in 1..(i - 1) : regMap[j].name # mmpOp.name

\* three descriptors, the first and the last for address 16: the map holds
\* the last one at 16, both registers are called CFG, and the lookup of CFG
\* returned 16, the first in map order
C32_Witness ==
    /\ mmpOp.op = "getRegisterAddressByName"
    /\ mmpOp.name = "CFG"
    /\ mmpOp.rval = 16
    /\ Len(mmpOp.registerList) = 3
    /\ mmpOp.registerList[1].addr = 16
    /\ mmpOp.registerList[1].name = "STAT"
    /\ mmpOp.registerList[2].addr = 17
    /\ mmpOp.registerList[2].name = "CFG"
    /\ mmpOp.registerList[3].addr = 16
    /\ mmpOp.registerList[3].name = "CFG"
    /\ mmpOp.registerList[3].size # mmpOp.registerList[1].size
    /\ Len(regMap) = 2

(***************************************************************************)
(* Properties of the Stack                                                 *)
(***************************************************************************)
\* stack[n] for 0 <= n < len is the (n+1)-th most recently added item retained
TopDown(f, s) ==
    /\ Stack_getNumItems(f) = Len(s)
    /\ \A n \in 0..(Len(s) - 1) : Stack_getitem(f, n) = s[Len(s) - n]

\* C33: under the blocking policy, after any sequence of add() and get(),
\* stack[n] for 0 <= n < len is the (n+1)-th most recently added retained
\* item, get() returns the most recently added retained item (None when there
\* is none), and add() on a full stack returns False and leaves the stack,
\* its pointers and its count as they were.
C33_BlockingStackIsLifo ==
    [][fifo.blockOnFull =>
         /\ TopDown(fifo', fSeq')
         /\ fifoOp'.op = "get" =>
               fifoOp'.item = (IF fSeq = <<>> THEN None ELSE fSeq[Len(fSeq)])
         /\ (fifoOp'.op = "add" /\ Stack_isFull(fifo)) =>
               (fifoOp'.rval = FALSE /\ fifo' = fifo)
         /\ (fifoOp'.op = "add" /\ ~Stack_isFull(fifo)) =>
               (fifoOp'.rval = TRUE /\ Stack_getitem(fifo', 0) = fifoOp'.item)]_vars

\* a blocking stack whose pointers have wrapped, just read by get() with two
\* items left
C33_Witness ==
    /\ fifo.blockOnFull
    /\ fifoOp.op = "get"
    /\ fifoOp.item = <<MaxAdds>>
    /\ Len(fSeq) = 2

\* C34: for a non-empty Stack holding n items, every negative index with
\* abs(index) > n returns the same item as stack[0], and every positive index
\* >= n returns the same item as stack[n-1].
C34_IndexPegsAtBothEnds ==
    (fifoOp.op = "getitem" /\ Stack_getNumItems(fifo) > 0) =>
        LET n == Stack_getNumItems(fifo)
        IN /\ (fifoOp.index < 0 /\ Abs(fifoOp.index) > n) =>
                  fifoOp.item = Stack_getitem(fifo, 0)
           /\ (fifoOp.index > 0 /\ fifoOp.index >= n) =>
                  fifoOp.item = Stack_getitem(fifo, n - 1)

\* the items currently held
Held(s) == {s[i] : i \in 1..Len(s)}

\* C35: after any sequence of add() and get(), of either policy, stack[m]
\* returns None on an empty stack and one of the items currently held
\* otherwise, for every index m.
C35_IndexingExposesOnlyHeldItems ==
    /\ \A m \in (0 - FifoDepth - 2)..(FifoDepth + 2) :
          IF fSeq = <<>> THEN Stack_getitem(fifo, m) = None
          ELSE Stack_getitem(fifo, m) \in Held(fSeq)
    /\ fifoOp.op = "getitem" =>
          IF fSeq = <<>> THEN fifoOp.item = None ELSE fifoOp.item \in Held(fSeq)

\* a stack drained and filled again, read beyond its single item
C35_Witness ==
    /\ fifoOp.op = "getitem"
    /\ fifoOp.index = 0 - FifoDepth - 2
    /\ fCount = MaxAdds
    /\ Len(fSeq) = 1
    /\ fifoOp.item = <<MaxAdds>>

\* the stack holds the last min(k, depth) of the k items added, top down
AllRecent(f, k) ==
    /\ Stack_getNumItems(f) = Min(k, f.depth)
    /\ \A n \in 0..(Min(k, f.depth) - 1) : Stack_getitem(f, n) = <<k - n>>

Without(d, n) == [k \in (DOMAIN d) \ {n} |-> d[k]]

\* C37: setMemberValueByName(name, value) never raises, stores value as the
\* confirmed value of the member called name, removes the pending entry of
\* that member when it equals value, and leaves every other pending entry
\* as it was.
C37_SetMemberValueClearsOwnPending ==
    [][regOp'.op = "setMemberValueByName" =>
         LET n == regOp'.name
             v == regOp'.val
         IN /\ regOp'.raised = "none"
            /\ \A i \in 1..Len(reg.members) :
                  reg.members[i].name = n => reg'.members[i].value = v
            /\ reg'.changeDict =
                  (IF HasChange(reg, n) /\ reg.changeDict[n] = v
                   THEN Without(reg.changeDict, n)
                   ELSE reg.changeDict)]_vars

(***************************************************************************)
(* Properties of the two-phase consumption while items are added           *)
(***************************************************************************)
\* the items pending in the FIFO, oldest first
Items(f) == [i \in 1..FIFO_getNumItems(f) |-> FIFO_getitem(f, i - 1).item]

\* C38: under the blocking policy, while only add() calls follow a load()
\* that returned an item, that item stays the head of the FIFO, and the
\* inc() that follows removes exactly that item and no other.
C38_AddsBetweenLoadAndIncKeepHead ==
    [][(fifo.blockOnFull /\ fLoaded # None) =>
         /\ FIFO_load(fifo) = fLoaded
         /\ fifoOp'.op = "add" => FIFO_load(fifo') = fLoaded
         /\ fifoOp'.op = "inc" =>
               /\ Items(fifo) = <<fLoaded>> \o Items(fifo')
               /\ fSeq = <<fLoaded>> \o fSeq']_vars

\* inc() after a load() followed by adds, the last two refused: the item
\* loaded has gone and the two accepted after it are pending
C38_Witness ==
    /\ fifo.blockOnFull
    /\ fifoOp.op = "inc"
    /\ fifoOp.loaded = <<MaxAdds - 4>>
    /\ fCount = MaxAdds
    /\ fSeq = <<<<MaxAdds - 3>>, <<MaxAdds - 2>>>>

(***************************************************************************)
(* Properties of the full command queue                                    *)
(***************************************************************************)
\* C39: the command queue never holds more than 10 commands; a command handed
\* to addReadToQueue/addWriteToQueue while 10 are pending is discarded, the
\* queue object (contents, order, pointers) is as before, and the call returns
\* what it returns for an accepted command: 0 for a read, None for a write.
C39_EleventhCommandDiscardedSilently ==
    [][/\ FIFO_getNumItems(cmdQueue') <= CmdQueueDepth
       /\ lastOp'.op \in {"addReadToQueue", "addWriteToQueue"} =>
            /\ lastOp'.rval = (IF lastOp'.op = "addReadToQueue" THEN <<0>> ELSE None)
            /\ FIFO_getNumItems(cmdQueue) = CmdQueueDepth =>
                  /\ cmdQueue' = cmdQueue
                  /\ Pending(cmdQueue') = Pending(cmdQueue)
                  /\ accepted' = accepted
            /\ FIFO_getNumItems(cmdQueue) < CmdQueueDepth =>
                  Pending(cmdQueue') = Append(Pending(cmdQueue), lastOp'.item)]_vars

\* a write handed over while ten commands were pending: it is in no slot
C39_Witness ==
    /\ lastOp.op = "addWriteToQueue"
    /\ FIFO_getNumItems(cmdQueue) = CmdQueueDepth
    /\ Len(handed) = CmdQueueDepth + 1
    /\ Len(accepted) = CmdQueueDepth
    /\ \A i \in 1..CmdQueueDepth : Pending(cmdQueue)[i] # lastOp.item

(***************************************************************************)
(* Properties of the open-loop commit on a filling queue                   *)
(***************************************************************************)
\* the registers whose confirmed member values the step has changed
Advanced(m, m2) == {k \in ChangedEntries(m) : m2[k].reg.members # m[k].reg.members}

\* C40: whenever a sendChangesToDevice(openLoop=True) call advances the
\* confirmed value of a register with a pending change, the call has added to
\* the command queue a WRITE for the register's address carrying the pending
\* value (nextValue()).
C40_CommitOnlyWhatWasQueued ==
    [][(nSends' = nSends + 1 /\ mmpOp'.op = "sendChangesToDevice" /\ mmpOp'.openLoop) =>
          \A k \in Advanced(regMap, regMap') :
              \E i \in 1..Len(Added(cmdQueue, cmdQueue')) :
                  Added(cmdQueue, cmdQueue')[i] =
                      <<CMD_WRITE, regMap[k].addr, Register_nextValue(regMap[k].reg)>>]_vars

====
